---- MODULE Spec2Model ----
(***************************************************************************)
(* Authorization resolution engine of the rice back-office platform:      *)
(* permission / role / data-scope resolution over the Fact Store with the  *)
(* Redis cache-aside layer (app/core/permissions.py, app/utils/cache.py),  *)
(* the guards (app/api/deps.py, app/core/permissions.py), the row filter   *)
(* apply_data_scope_filter and the department hierarchy walker             *)
(* (app/services/department_service.py), together with the mutation flows  *)
(* that change the associations the resolvers read.                        *)
(***************************************************************************)
EXTENDS Integers, Sequences, FiniteSets, TLC

(***************************************************************************)
(* Bounds of the model.                                                    *)
(***************************************************************************)
\* number of committed Fact-Store mutations explored in one behaviour
MaxMutations == 2
\* number of Permission rows
NumPerms == 3
\* seconds of the clock looked at after each origin
MaxSeconds == 1
\* number of logins of the account
MaxLogins == 2
\* last millisecond of the clock SnowflakeIDGenerator reads
MaxMillis == 6
\* number of generate_id calls
MaxCalls == 3

(***************************************************************************)
(* Program constants.                                                      *)
(***************************************************************************)
\* DataScope(IntEnum)
ALL == 1
DEPT == 2
DEPT_AND_SUB == 3
SELF == 4
CUSTOM == 5
DataScope == {ALL, DEPT, DEPT_AND_SUB, SELF, CUSTOM}

\* User.user_type: 0 superadmin, 2 normal user (UserService.create_user)
SUPERADMIN == 0
NORMAL_USER == 2

\* Permission.type: 1 group / directory, 2 actual permission
TYPE_GROUP == 1
TYPE_ACTION == 2

\* SQL NULL / Python None
NULL == "NULL"

\* the request that completed last: the call, its arguments and what it
\* returned; a filter is the WHERE clause added to the query, `raised`
\* marks a call that ended in an exception
NoFilter == [kind |-> "none", owner |-> NULL, dept_ids |-> {}, raised |-> FALSE]
NoRequest ==
    [op |-> "none", user |-> NULL, role |-> NULL, required |-> {},
     outcome |-> "none", value |-> {}, filter |-> NoFilter, has_dept_id |-> FALSE,
     role_ids |-> FALSE, permission_ids |-> FALSE, cache_ops |-> 0, store_queries |-> 0,
     node |-> NULL, parent |-> NULL, token |-> 0, as_list |-> FALSE,
     redis_fault |-> "none", db_fault |-> FALSE, include_self |-> FALSE]

UserIds == {"admin", "u1", "u2"}
OrdinaryUsers == {"u1", "u2"}
RoleIds == {"r1", "r2"}
PermIds == 1..NumPerms
DeptIds == {"d1", "d2", "d3"}

\* Permission.parent_id: 0 names no parent (column default)
NO_PARENT == 0

\* seed rows of the permissions table: two ACTION permissions under the GROUP
\* node 3, then a disabled and a soft-deleted ACTION permission
PermissionRow(p) ==
    CASE p = 1 -> [code |-> "user:list", type |-> TYPE_ACTION, status |-> 1,
                   is_deleted |-> FALSE, exists |-> TRUE, parent_id |-> 3]
      [] p = 2 -> [code |-> "user:update", type |-> TYPE_ACTION, status |-> 1,
                   is_deleted |-> FALSE, exists |-> TRUE, parent_id |-> 3]
      [] p = 3 -> [code |-> "system", type |-> TYPE_GROUP, status |-> 1,
                   is_deleted |-> FALSE, exists |-> TRUE, parent_id |-> NO_PARENT]
      [] p = 4 -> [code |-> "user:delete", type |-> TYPE_ACTION, status |-> 0,
                   is_deleted |-> FALSE, exists |-> TRUE, parent_id |-> 3]
      [] OTHER -> [code |-> "user:create", type |-> TYPE_ACTION, status |-> 1,
                   is_deleted |-> TRUE, exists |-> TRUE, parent_id |-> NO_PARENT]

PermissionCodes == {PermissionRow(p).code : p \in PermIds}

VARIABLES
    users,             \* users table: user_type, dept_id
    roles,             \* roles table: status, is_deleted, data_scope
    permissions,       \* permissions table: code, type, status, is_deleted, parent_id
    user_roles,        \* user_roles rows, as user -> set of role ids
    role_permissions,  \* role_permissions rows, as role -> set of permission ids
    role_departments,  \* role_departments rows, as role -> set of department ids
    departments,       \* departments table: parent_id, is_deleted (or absent)
    cache,             \* Redis keys user:permissions / user:roles / user:data_scope
    last,              \* the request that completed last and what it returned
    mutations,         \* number of committed mutations so far
    menus,             \* menus table: parent_id, is_deleted (or absent)
    redis_fault,       \* which Redis operations fail at the moment
    db_fault,          \* whether db.execute raises at the moment
    now,               \* datetime.utcnow(), in seconds
    user_session,      \* Redis key user_session:{user.id} of the one account
    tokens,            \* access tokens issued by login, oldest first
    blacklist,         \* Redis keys token:blacklist:{hash}, as the set of tokens
    millis,            \* time.time() * 1000 as SnowflakeIDGenerator reads it
    generator,         \* SnowflakeIDGenerator: sequence, last_timestamp
    threads,           \* threads calling generate_id: position and id in hand
    returned,          \* ids handed back to callers, in order of return
    menu_sessions,     \* update_menu requests between validation and db.commit()
    resolving,         \* get_user_permissions calls between store read and cache write
    dept_cache,        \* Redis key dept:list:{tenant_id}
    dept_sessions,     \* department writes between the service call and db.commit()
    dept_readers       \* get_departments calls between the SELECT and the cache write

factVars == <<users, roles, permissions, user_roles, role_permissions,
              role_departments, departments>>
faultVars == <<redis_fault, db_fault>>
sessionVars == <<now, user_session, tokens, blacklist>>
snowflakeVars == <<millis, generator, threads, returned>>
\* requests that are between two of their awaits, and the department cache
flightVars == <<menu_sessions, resolving, dept_cache, dept_sessions, dept_readers>>
\* state outside the authorization stores
auxVars == <<menus, faultVars, sessionVars, snowflakeVars, flightVars>>
vars == <<users, roles, permissions, user_roles, role_permissions,
          role_departments, departments, cache, last, mutations, auxVars>>

(***************************************************************************)
(* Fact-Store queries of the resolvers.                                    *)
(***************************************************************************)
\* Role.status == 1, Role.is_deleted == False
RoleIsActive(r) == roles[r].status = 1 /\ roles[r].is_deleted = FALSE

\* the permission SELECT of get_user_permissions for a list of role ids
db_permissions_of(role_ids) ==
        IF role_ids = {} THEN {}
        ELSE {permissions[p].code : p \in
                {q \in PermIds :
                    /\ \E r \in role_ids : q \in role_permissions[r]
                    /\ permissions[q].exists
                    /\ permissions[q].status = 1
                    /\ permissions[q].is_deleted = FALSE
                    /\ permissions[q].type = TYPE_ACTION
                    /\ permissions[q].code # NULL}}

\* the two SELECTs of get_user_permissions on a cache miss
db_user_permissions(u) == db_permissions_of(user_roles[u])

\* number of db.execute calls get_user_permissions makes on a miss
db_user_permissions_queries(u) == IF user_roles[u] = {} THEN 1 ELSE 2

\* the SELECT of get_user_roles on a cache miss (role code = role id here)
db_user_roles(u) == {r \in user_roles[u] : RoleIsActive(r)}

\* db_user_data_scope with a fault: the largest value is taken
db_user_data_scope_max(u) ==
    LET data_scopes == {roles[r].data_scope : r \in {x \in user_roles[u] : RoleIsActive(x)}}
    IN  IF data_scopes = {} THEN SELF
        ELSE CHOOSE m \in data_scopes : \A s \in data_scopes : m >= s

\* the SELECT of get_user_data_scope on a cache miss, and the min rule
db_user_data_scope(u) ==
    LET data_scopes == {roles[r].data_scope : r \in {x \in user_roles[u] : RoleIsActive(x)}}
    IN  IF data_scopes = {} THEN SELF
        ELSE CHOOSE m \in data_scopes : \A s \in data_scopes : m <= s

(***************************************************************************)
(* PermissionCache (app/utils/cache.py).  A key holds the text written by  *)
(* set_*: json.dumps(list(codes)) or str(data_scope).  Both texts are      *)
(* non-empty ("[]" for the empty set), so `if cached_data:` is true for    *)
(* every key that is present.  A getter returns Optional: present / value. *)
(***************************************************************************)
None == [present |-> FALSE, value |-> {}]
Some(v) == [present |-> TRUE, value |-> v]

\* json.dumps(list(codes)): the JSON array, kept as the set of its elements
json_dumps(codes) == [array |-> codes]
\* set(json.loads(text))
json_loads(text) == text.array
\* str(data_scope): the decimal digits of the value
str(n) == [digits |-> n]
\* int(text)
int(text) == text.digits

\* PermissionCache.CACHE_EXPIRE_SECONDS
CACHE_EXPIRE_SECONDS == 15 * 60

\* a Redis key: its text and the `ex` it was set with (0: no expiry)
KeyAbsent == [present |-> FALSE, text |-> [array |-> {}], ex |-> 0]

\* redis.set(cache_key, cached_data) with a fault: no expiry is passed
KeyHolding_without_expiry(t) == [present |-> TRUE, text |-> t, ex |-> 0]

\* redis.set(cache_key, cached_data, ex=PermissionCache.CACHE_EXPIRE_SECONDS)
KeyHolding(t) == [present |-> TRUE, text |-> t, ex |-> CACHE_EXPIRE_SECONDS]

\* Redis faults: "get" / "set" make redis.get / redis.set raise, "down" makes
\* RedisClient.get_client() fail; every getter and setter catches the
\* exception and returns None / False
RedisFaults == {"none", "get", "set", "down"}
redis_get_fails == redis_fault \in {"get", "down"}
redis_set_fails == redis_fault \in {"set", "down"}

PermissionCache_get_user_permissions(u) ==
    LET cached_data == cache[u].permissions
    IN  IF redis_get_fails THEN None
        ELSE IF cached_data.present THEN Some(json_loads(cached_data.text)) ELSE None

PermissionCache_set_user_permissions(u, perms) ==
    IF redis_set_fails THEN cache
    ELSE [cache EXCEPT ![u].permissions = KeyHolding(json_dumps(perms))]

PermissionCache_get_user_roles(u) ==
    LET cached_data == cache[u].roles
    IN  IF redis_get_fails THEN None
        ELSE IF cached_data.present THEN Some(json_loads(cached_data.text)) ELSE None

PermissionCache_set_user_roles(u, rs) ==
    IF redis_set_fails THEN cache
    ELSE [cache EXCEPT ![u].roles = KeyHolding(json_dumps(rs))]

PermissionCache_get_user_data_scope(u) ==
    LET cached_data == cache[u].data_scope
    IN  IF redis_get_fails THEN None
        ELSE IF cached_data.present THEN Some(int(cached_data.text)) ELSE None

PermissionCache_set_user_data_scope(u, scope) ==
    IF redis_set_fails THEN cache
    ELSE [cache EXCEPT ![u].data_scope = KeyHolding(str(scope))]

\* redis.delete(permissions_key, roles_key, data_scope_key)
PermissionCache_clear_all_user_cache(c, u) ==
    [c EXCEPT ![u] = [permissions |-> KeyAbsent, roles |-> KeyAbsent, data_scope |-> KeyAbsent]]

clear_user_permission_cache(c, u) == PermissionCache_clear_all_user_cache(c, u)

(***************************************************************************)
(* The resolvers (app/core/permissions.py): cache first, store on a miss,  *)
(* then write the cache.  Each returns its result, the cache it leaves and *)
(* the number of cache operations and store queries it performed.          *)
(***************************************************************************)
\* what a resolver gives back when db.execute raised: the exception leaves
\* the resolver before anything is written to the cache
StoreError == [result |-> {}, cache |-> cache, cache_ops |-> 1, store_queries |-> 1,
               raised |-> TRUE]

\* get_user_permissions with a fault: a failing cache call is fatal
get_user_permissions_cache_fatal(u) ==
    LET cached_permissions == PermissionCache_get_user_permissions(u)
    IN  IF redis_fault # "none" THEN StoreError
        ELSE IF cached_permissions.present
        THEN [result |-> cached_permissions.value, cache |-> cache,
              cache_ops |-> 1, store_queries |-> 0, raised |-> FALSE]
        ELSE LET perms == db_user_permissions(u)
             IN  [result |-> perms,
                  cache |-> PermissionCache_set_user_permissions(u, perms),
                  cache_ops |-> 2, store_queries |-> db_user_permissions_queries(u),
                  raised |-> FALSE]

get_user_permissions(u) ==
    LET cached_permissions == PermissionCache_get_user_permissions(u)
    IN  IF cached_permissions.present
        THEN [result |-> cached_permissions.value, cache |-> cache,
              cache_ops |-> 1, store_queries |-> 0, raised |-> FALSE]
        ELSE IF db_fault THEN StoreError
        ELSE LET perms == db_user_permissions(u)
             IN  [result |-> perms,
                  cache |-> PermissionCache_set_user_permissions(u, perms),
                  cache_ops |-> 2, store_queries |-> db_user_permissions_queries(u),
                  raised |-> FALSE]

get_user_roles(u) ==
    LET cached_roles == PermissionCache_get_user_roles(u)
    IN  IF cached_roles.present
        THEN [result |-> cached_roles.value, cache |-> cache,
              cache_ops |-> 1, store_queries |-> 0, raised |-> FALSE]
        ELSE IF db_fault THEN StoreError
        ELSE LET rs == db_user_roles(u)
             IN  [result |-> rs,
                  cache |-> PermissionCache_set_user_roles(u, rs),
                  cache_ops |-> 2, store_queries |-> 1, raised |-> FALSE]

get_user_data_scope(u) ==
    LET cached_data_scope == PermissionCache_get_user_data_scope(u)
    IN  IF cached_data_scope.present
        THEN [result |-> cached_data_scope.value, cache |-> cache,
              cache_ops |-> 1, store_queries |-> 0, raised |-> FALSE]
        ELSE IF db_fault THEN [StoreError EXCEPT !.result = SELF]
        ELSE LET data_scope == db_user_data_scope(u)
             IN  [result |-> data_scope,
                  cache |-> PermissionCache_set_user_data_scope(u, data_scope),
                  cache_ops |-> 2, store_queries |-> 1, raised |-> FALSE]

(***************************************************************************)
(* Hierarchy walker (DepartmentService.get_sub_departments).               *)
(***************************************************************************)
\* a walk deeper than the number of department rows has re-entered a
\* department and never ends: Python stops it with RecursionError
RecursionLimit == Cardinality(DeptIds) + 1

RECURSIVE SetToSeq(_)
SetToSeq(S) ==
    IF S = {} THEN <<>>
    ELSE LET x == CHOOSE y \in S : TRUE IN <<x>> \o SetToSeq(S \ {x})

RECURSIVE Concat(_)
Concat(ss) == IF ss = <<>> THEN <<>> ELSE Head(ss) \o Concat(Tail(ss))

Range(f) == {f[i] : i \in DOMAIN f}

\* SELECT id FROM departments WHERE parent_id = :dept_id AND NOT is_deleted
\* (a NULL :dept_id is rendered as `parent_id IS NULL`)
db_child_ids(dept_id) ==
    {d \in DeptIds : /\ departments[d].exists
                     /\ departments[d].parent_id = dept_id
                     /\ departments[d].is_deleted = FALSE}

RECURSIVE get_sub_departments(_, _, _)
get_sub_departments(dept_id, include_self, depth) ==
    IF depth > RecursionLimit THEN [error |-> TRUE, dept_ids |-> <<>>]
    ELSE LET child_ids == SetToSeq(db_child_ids(dept_id))
             subs == [i \in 1..Len(child_ids) |->
                        get_sub_departments(child_ids[i], TRUE, depth + 1)]
         IN  IF \E i \in 1..Len(child_ids) : subs[i].error
             THEN [error |-> TRUE, dept_ids |-> <<>>]
             ELSE [error |-> FALSE,
                   dept_ids |-> (IF include_self THEN <<dept_id>> ELSE <<>>)
                                \o Concat([i \in 1..Len(child_ids) |-> subs[i].dept_ids])]

(***************************************************************************)
(* Row filter (apply_data_scope_filter).  A filter is the WHERE clause     *)
(* added to the query; `raised` marks a call that ended in an exception.   *)
(***************************************************************************)
OwnerFilter(u) == [NoFilter EXCEPT !.kind = "owner", !.owner = u]
DeptEqFilter(d) == [NoFilter EXCEPT !.kind = "dept_eq", !.dept_ids = {d}]
DeptInFilter(ds) == [NoFilter EXCEPT !.kind = "dept_in", !.dept_ids = ds]
FalseFilter == [NoFilter EXCEPT !.kind = "false"]
Raised == [NoFilter EXCEPT !.kind = "raised", !.raised = TRUE]

\* branch `scope == DataScope.DEPT`, with a fault: an entity without dept_id is
\* left unfiltered
dept_scope_filter_unfiltered(u, has_dept_id) ==
    [filter |-> IF has_dept_id THEN DeptEqFilter(users[u].dept_id) ELSE NoFilter,
     cache_ops |-> 0, store_queries |-> 1]

\* branch `scope == DataScope.DEPT`
dept_scope_filter(u, has_dept_id) ==
    [filter |-> IF has_dept_id THEN DeptEqFilter(users[u].dept_id) ELSE OwnerFilter(u),
     cache_ops |-> 0, store_queries |-> 1]

\* branch `scope == DataScope.DEPT_AND_SUB`
dept_and_sub_scope_filter(u, has_dept_id) ==
    LET sub == get_sub_departments(users[u].dept_id, TRUE, 1)
    IN  IF has_dept_id
        THEN [filter |-> IF sub.error THEN Raised
                         ELSE DeptInFilter(Range(sub.dept_ids) \cup {users[u].dept_id}),
              cache_ops |-> 0, store_queries |-> 2]
        ELSE [filter |-> OwnerFilter(u), cache_ops |-> 0, store_queries |-> 1]

\* branch `scope == DataScope.CUSTOM`
custom_scope_filter(u, has_dept_id, roles_data) ==
    LET custom_role_ids == {r \in roles_data : roles[r].data_scope = CUSTOM}
        custom_dept_ids == UNION {role_departments[r] : r \in custom_role_ids}
    IN  [filter |-> IF has_dept_id
                    THEN IF custom_dept_ids # {} THEN DeptInFilter(custom_dept_ids)
                         ELSE FalseFilter
                    ELSE OwnerFilter(u),
         cache_ops |-> 0,
         store_queries |-> IF custom_role_ids # {} THEN 2 ELSE 1]

\* apply_data_scope_filter with a fault: the scope is taken from the resolver
\* get_user_data_scope, which answers from the cache
apply_data_scope_filter_cached_scope(u, has_dept_id) ==
    IF users[u].user_type = SUPERADMIN
    THEN [filter |-> NoFilter, cache_ops |-> 0, store_queries |-> 0]
    ELSE
    LET roles_data == {r \in user_roles[u] : RoleIsActive(r)}
        scope == get_user_data_scope(u).result
    IN  IF roles_data = {}
        THEN [filter |-> OwnerFilter(u), cache_ops |-> 0, store_queries |-> 1]
        ELSE CASE scope = ALL ->
                    [filter |-> NoFilter, cache_ops |-> 0, store_queries |-> 1]
               [] scope = SELF ->
                    [filter |-> OwnerFilter(u), cache_ops |-> 0, store_queries |-> 1]
               [] scope = DEPT -> dept_scope_filter(u, has_dept_id)
               [] scope = DEPT_AND_SUB -> dept_and_sub_scope_filter(u, has_dept_id)
               [] scope = CUSTOM -> custom_scope_filter(u, has_dept_id, roles_data)
               [] OTHER ->
                    [filter |-> NoFilter, cache_ops |-> 0, store_queries |-> 1]

apply_data_scope_filter(u, has_dept_id) ==
    IF users[u].user_type = SUPERADMIN
    THEN [filter |-> NoFilter, cache_ops |-> 0, store_queries |-> 0]
    ELSE
    LET roles_data == {r \in user_roles[u] : RoleIsActive(r)}
        data_scopes == {roles[r].data_scope : r \in roles_data}
        scope == IF data_scopes = {} THEN SELF
                 ELSE CHOOSE m \in data_scopes : \A x \in data_scopes : m <= x
    IN  IF roles_data = {}
        THEN [filter |-> OwnerFilter(u), cache_ops |-> 0, store_queries |-> 1]
        ELSE CASE scope = ALL ->
                    [filter |-> NoFilter, cache_ops |-> 0, store_queries |-> 1]
               [] scope = SELF ->
                    [filter |-> OwnerFilter(u), cache_ops |-> 0, store_queries |-> 1]
               [] scope = DEPT -> dept_scope_filter(u, has_dept_id)
               [] scope = DEPT_AND_SUB -> dept_and_sub_scope_filter(u, has_dept_id)
               [] scope = CUSTOM -> custom_scope_filter(u, has_dept_id, roles_data)
               [] OTHER ->
                    [filter |-> NoFilter, cache_ops |-> 0, store_queries |-> 1]

\* rows of the target entity: who created the row and, where the entity has
\* the column, the department it belongs to
Rows == [created_by : UserIds, dept_id : DeptIds \cup {NULL}]

\* SQL evaluation of the WHERE clause on one row; `= NULL` is rendered as
\* IS NULL, and `IN (...)` is never true for a NULL column
Matches(f, row) ==
    CASE f.kind = "none" -> TRUE
      [] f.kind = "owner" -> row.created_by = f.owner
      [] f.kind = "dept_eq" -> row.dept_id \in f.dept_ids
      [] f.kind = "dept_in" -> row.dept_id # NULL /\ row.dept_id \in f.dept_ids
      [] OTHER -> FALSE

VisibleRows(f) == {row \in Rows : Matches(f, row)}

\* db.commit() of a mutating request
Committed ==
    /\ mutations < MaxMutations
    /\ mutations' = mutations + 1
    /\ UNCHANGED auxVars

(***************************************************************************)
(* Resolver calls (GET /auth/user-info and the guards call them).          *)
(***************************************************************************)
GetUserPermissions(u) ==
    LET r == get_user_permissions(u)
    IN  /\ cache' = r.cache
        /\ last' = [NoRequest EXCEPT !.op = "get_user_permissions", !.user = u,
                       !.outcome = IF r.raised THEN "raised" ELSE "ok",
                       !.value = r.result,
                       !.redis_fault = redis_fault, !.db_fault = db_fault,
                       !.cache_ops = r.cache_ops, !.store_queries = r.store_queries]
        /\ UNCHANGED <<factVars, mutations, auxVars>>

GetUserRoles(u) ==
    LET r == get_user_roles(u)
    IN  /\ cache' = r.cache
        /\ last' = [NoRequest EXCEPT !.op = "get_user_roles", !.user = u,
                       !.outcome = IF r.raised THEN "raised" ELSE "ok",
                       !.value = r.result,
                       !.redis_fault = redis_fault, !.db_fault = db_fault,
                       !.cache_ops = r.cache_ops, !.store_queries = r.store_queries]
        /\ UNCHANGED <<factVars, mutations, auxVars>>

GetUserDataScope(u) ==
    LET r == get_user_data_scope(u)
    IN  /\ cache' = r.cache
        /\ last' = [NoRequest EXCEPT !.op = "get_user_data_scope", !.user = u,
                       !.outcome = IF r.raised THEN "raised" ELSE "ok",
                       !.value = {r.result},
                       !.redis_fault = redis_fault, !.db_fault = db_fault,
                       !.cache_ops = r.cache_ops, !.store_queries = r.store_queries]
        /\ UNCHANGED <<factVars, mutations, auxVars>>

\* Redis drops a key whose expiry has passed
Expire(u, kind) ==
    /\ cache[u][kind].present
    /\ cache[u][kind].ex > 0
    /\ cache' = [cache EXCEPT ![u][kind] = KeyAbsent]
    /\ UNCHANGED <<factVars, last, mutations, auxVars>>

(***************************************************************************)
(* Guards.  The outcome is "allow" (the guarded handler runs), "401" or    *)
(* "403".                                                                  *)
(***************************************************************************)
\* the positional arguments of a guard: `@require_permissions("a", "b")` passes
\* the codes themselves, `@require_permissions(["a", "b"])` passes one list
Codes(cs) == [as_list |-> FALSE, codes |-> cs]
CodeList(cs) == [as_list |-> TRUE, codes |-> cs]

\* hashing an argument (set(permission_codes), `perm in user_permissions`)
\* raises TypeError when the argument is a list
unhashable(permission_codes) == permission_codes.as_list

GuardResult(outcome, r) ==
    [outcome |-> outcome, cache |-> r.cache,
     cache_ops |-> r.cache_ops, store_queries |-> r.store_queries]

Bypass == [outcome |-> "allow", cache |-> cache, cache_ops |-> 0, store_queries |-> 0]
Unauthorized == [outcome |-> "401", cache |-> cache, cache_ops |-> 0, store_queries |-> 0]

\* permission_checker with a fault: the superadmin is resolved like anyone else
permission_checker_no_bypass(current_user, required) ==
    LET r == get_user_permissions(current_user)
        missing_permissions == required.codes \ r.result
    IN  IF r.raised \/ unhashable(required) THEN GuardResult("raised", r)
        ELSE GuardResult(IF missing_permissions # {} THEN "403" ELSE "allow", r)

\* app/api/deps.py require_permissions(...).permission_checker
permission_checker(current_user, required) ==
    IF users[current_user].user_type = SUPERADMIN THEN Bypass
    ELSE LET r == get_user_permissions(current_user)
             missing_permissions == required.codes \ r.result
         IN  IF r.raised \/ unhashable(required) THEN GuardResult("raised", r)
             ELSE GuardResult(IF missing_permissions # {} THEN "403" ELSE "allow", r)

\* @require_permissions with a fault: a failed resolution lets the request in
require_permissions_fail_open(current_user, permission_codes) ==
    IF current_user = NULL THEN Unauthorized
    ELSE IF users[current_user].user_type = SUPERADMIN THEN Bypass
    ELSE LET r == get_user_permissions(current_user)
             missing_permissions == permission_codes.codes \ r.result
         IN  IF r.raised THEN GuardResult("allow", r)
             ELSE IF unhashable(permission_codes) THEN GuardResult("raised", r)
             ELSE GuardResult(IF missing_permissions # {} THEN "403" ELSE "allow", r)

\* app/core/permissions.py @require_permissions(*permission_codes)
require_permissions(current_user, permission_codes) ==
    IF current_user = NULL THEN Unauthorized
    ELSE IF users[current_user].user_type = SUPERADMIN THEN Bypass
    ELSE LET r == get_user_permissions(current_user)
             missing_permissions == permission_codes.codes \ r.result
         IN  IF r.raised \/ unhashable(permission_codes) THEN GuardResult("raised", r)
             ELSE GuardResult(IF missing_permissions # {} THEN "403" ELSE "allow", r)

\* app/core/permissions.py @require_any_permission(*permission_codes)
require_any_permission(current_user, permission_codes) ==
    IF current_user = NULL THEN Unauthorized
    ELSE IF users[current_user].user_type = SUPERADMIN THEN Bypass
    ELSE LET r == get_user_permissions(current_user)
         IN  IF r.raised \/ unhashable(permission_codes) THEN GuardResult("raised", r)
             ELSE GuardResult(IF ~(\E perm \in permission_codes.codes : perm \in r.result)
                              THEN "403" ELSE "allow", r)

\* app/core/permissions.py @require_roles(*role_codes)
require_roles(current_user, role_codes) ==
    IF current_user = NULL THEN Unauthorized
    ELSE IF users[current_user].user_type = SUPERADMIN THEN Bypass
    ELSE LET r == get_user_roles(current_user)
         IN  IF r.raised \/ unhashable(role_codes) THEN GuardResult("raised", r)
             ELSE GuardResult(IF ~(\E role \in role_codes.codes : role \in r.result)
                              THEN "403" ELSE "allow", r)

GuardStep(name, g, current_user, required) ==
    /\ cache' = g.cache
    /\ last' = [NoRequest EXCEPT !.op = name, !.user = current_user,
                   !.required = required.codes, !.as_list = required.as_list,
                   !.outcome = g.outcome,
                   !.redis_fault = redis_fault, !.db_fault = db_fault,
                   !.cache_ops = g.cache_ops, !.store_queries = g.store_queries]
    /\ UNCHANGED <<factVars, mutations, auxVars>>

PermissionChecker(u, required) ==
    GuardStep("permission_checker", permission_checker(u, required), u, required)

RequirePermissions(cu, required) ==
    GuardStep("require_permissions", require_permissions(cu, required), cu, required)

RequireAnyPermission(cu, required) ==
    GuardStep("require_any_permission", require_any_permission(cu, required), cu, required)

RequireRoles(cu, role_codes) ==
    GuardStep("require_roles", require_roles(cu, role_codes), cu, role_codes)

\* a listing handler narrows its query with the caller's data scope
ApplyDataScopeFilter(u, has_dept_id) ==
    LET r == apply_data_scope_filter(u, has_dept_id)
    IN  /\ last' = [NoRequest EXCEPT !.op = "apply_data_scope_filter", !.user = u,
                       !.outcome = IF r.filter.raised THEN "raised" ELSE "ok",
                       !.filter = r.filter, !.has_dept_id = has_dept_id,
                       !.cache_ops = r.cache_ops, !.store_queries = r.store_queries]
        /\ UNCHANGED <<factVars, cache, mutations, auxVars>>

(***************************************************************************)
(* Mutation flows.  The caller of a mutating endpoint is the superadmin,   *)
(* whom the endpoint's guard lets through without a resolution.            *)
(***************************************************************************)
Rejected(name, code) ==
    /\ last' = [NoRequest EXCEPT !.op = name, !.user = "admin", !.outcome = code]
    /\ UNCHANGED <<factVars, cache, mutations, auxVars>>

\* payloads of PUT /users/{id}: a NULL dept_id is "field not sent"
UserUpdates ==
    [dept_id : DeptIds \cup {NULL}, has_role_ids : BOOLEAN, role_ids : SUBSET RoleIds]

\* PUT /users/{user_id}: api update_user -> UserService.update_user -> commit
UpdateUser(user_id, user_in) ==
    LET new_roles == IF user_in.has_role_ids THEN user_in.role_ids ELSE user_roles[user_id]
    IN  /\ Committed
        /\ users' = IF user_in.dept_id # NULL
                     THEN [users EXCEPT ![user_id].dept_id = user_in.dept_id]
                     ELSE users
        /\ user_roles' = [user_roles EXCEPT ![user_id] = new_roles]
        /\ last' = [NoRequest EXCEPT !.op = "update_user", !.user = user_id, !.outcome = "ok",
                       !.role_ids = user_in.has_role_ids,
                       !.value = db_permissions_of(user_roles[user_id])
                                    \ db_permissions_of(new_roles)]
        /\ UNCHANGED <<roles, permissions, role_permissions, role_departments,
                       departments, cache>>

\* payloads of PUT /roles/{id} (RoleUpdate, exclude_unset)
RoleUpdates ==
    [has_status : BOOLEAN, status : {0, 1},
     has_data_scope : BOOLEAN, data_scope : DataScope,
     has_permission_ids : BOOLEAN, permission_ids : SUBSET PermIds]

\* RoleService._assign_permissions: every id must name a non-deleted permission
assign_permissions_valid(permission_ids) ==
    \A p \in permission_ids : permissions[p].exists /\ permissions[p].is_deleted = FALSE

\* PUT /roles/{role_id}: api update_role -> RoleService.update_role -> commit
UpdateRole(role_id, role_data) ==
    IF roles[role_id].is_deleted
    THEN Rejected("update_role", "404")
    ELSE IF role_data.has_permission_ids /\ ~assign_permissions_valid(role_data.permission_ids)
    THEN Rejected("update_role", "400")
    ELSE
        /\ Committed
        /\ roles' = [roles EXCEPT
                        ![role_id].status = IF role_data.has_status THEN role_data.status ELSE @,
                        ![role_id].data_scope = IF role_data.has_data_scope
                                                THEN role_data.data_scope ELSE @]
        /\ role_permissions' = IF role_data.has_permission_ids
                                THEN [role_permissions EXCEPT ![role_id] = role_data.permission_ids]
                                ELSE role_permissions
        /\ last' = [NoRequest EXCEPT !.op = "update_role", !.user = "admin",
                       !.role = role_id, !.outcome = "ok",
                       !.permission_ids = role_data.has_permission_ids]
        /\ UNCHANGED <<users, permissions, user_roles, role_departments, departments, cache>>

\* DELETE /roles/{role_id}: api delete_role -> RoleService.delete_role -> commit
DeleteRole(role_id) ==
    IF roles[role_id].is_deleted
    THEN Rejected("delete_role", "404")
    ELSE IF \E u \in UserIds : role_id \in user_roles[u]
    THEN Rejected("delete_role", "400")
    ELSE
        /\ Committed
        /\ roles' = [roles EXCEPT ![role_id].is_deleted = TRUE]
        /\ last' = [NoRequest EXCEPT !.op = "delete_role", !.user = "admin",
                       !.role = role_id, !.outcome = "ok"]
        /\ UNCHANGED <<users, permissions, user_roles, role_permissions,
                       role_departments, departments, cache>>

(***************************************************************************)
(* Department flows (DepartmentService, api/v1/departments.py).            *)
(***************************************************************************)
AbsentDept == [exists |-> FALSE, parent_id |-> NULL, is_deleted |-> FALSE]

\* the store query of get_department_by_id: the row exists and is not deleted
get_department_by_id(dept_id) ==
    dept_id \in DeptIds /\ departments[dept_id].exists /\ ~departments[dept_id].is_deleted

\* the SELECT of get_departments: the rows that are not deleted
db_departments ==
    {[id |-> d, parent_id |-> departments[d].parent_id] :
        d \in {e \in DeptIds : departments[e].exists /\ ~departments[e].is_deleted}}

\* DepartmentCache.clear_all_cache: redis.delete of the list key
DepartmentCache_clear_all_cache == None

\* the service has cleared the department cache; db.commit() of the endpoint
DeptCommitted ==
    /\ mutations < MaxMutations
    /\ mutations' = mutations + 1
    /\ dept_cache' = DepartmentCache_clear_all_cache
    /\ UNCHANGED <<menus, faultVars, sessionVars, snowflakeVars, menu_sessions,
                   resolving, dept_sessions, dept_readers>>

\* `update_data["parent_id"] == dept_id` compares the int of the request
\* body with the str of the path: the two are never equal in Python
is_own_parent(parent_id, dept_id) == FALSE

\* POST /departments
CreateDepartment(parent_id) ==
    IF parent_id # NULL /\ ~get_department_by_id(parent_id)
    THEN Rejected("create_department", "400")
    ELSE
        /\ \E d \in DeptIds : ~departments[d].exists
        /\ DeptCommitted
        /\ LET id == CHOOSE d \in DeptIds : ~departments[d].exists
           IN  departments' = [departments EXCEPT ![id] =
                                  [exists |-> TRUE, parent_id |-> parent_id, is_deleted |-> FALSE]]
        /\ last' = [NoRequest EXCEPT !.op = "create_department", !.user = "admin", !.outcome = "ok"]
        /\ UNCHANGED <<users, roles, permissions, user_roles, role_permissions,
                       role_departments, cache>>

\* PUT /departments/{dept_id} with a parent_id in the body
UpdateDepartment(dept_id, parent_id) ==
    IF ~get_department_by_id(dept_id)
    THEN Rejected("update_department", "404")
    ELSE IF parent_id # NULL /\ is_own_parent(parent_id, dept_id)
    THEN Rejected("update_department", "400")
    ELSE IF parent_id # NULL /\ ~get_department_by_id(parent_id)
    THEN Rejected("update_department", "400")
    ELSE
        /\ DeptCommitted
        /\ departments' = [departments EXCEPT ![dept_id].parent_id = parent_id]
        /\ last' = [NoRequest EXCEPT !.op = "update_department", !.user = "admin", !.outcome = "ok"]
        /\ UNCHANGED <<users, roles, permissions, user_roles, role_permissions,
                       role_departments, cache>>

\* DELETE /departments/{dept_id}
DeleteDepartment(dept_id) ==
    IF ~get_department_by_id(dept_id)
    THEN Rejected("delete_department", "404")
    ELSE IF db_child_ids(dept_id) # {}
    THEN Rejected("delete_department", "400")
    ELSE
        /\ DeptCommitted
        /\ departments' = [departments EXCEPT ![dept_id].is_deleted = TRUE]
        /\ last' = [NoRequest EXCEPT !.op = "delete_department", !.user = "admin", !.outcome = "ok"]
        /\ UNCHANGED <<users, roles, permissions, user_roles, role_permissions,
                       role_departments, cache>>

\* a call of DepartmentService.get_sub_departments; a walk that never ends is
\* stopped by Python with RecursionError
GetSubDepartments(dept_id, include_self) ==
    LET r == get_sub_departments(dept_id, include_self, 1)
    IN  /\ last' = [NoRequest EXCEPT !.op = "get_sub_departments", !.node = dept_id,
                       !.include_self = include_self,
                       !.outcome = IF r.error THEN "raised" ELSE "ok",
                       !.value = r.dept_ids]
        /\ UNCHANGED <<factVars, cache, mutations, auxVars>>

(***************************************************************************)
(* Menu flows (MenuService, api/v1/menus.py) and the permission hierarchy  *)
(* (PermissionService).  Ids are the strings the path and the request body *)
(* carry.                                                                  *)
(***************************************************************************)
MenuIds == {"m1", "m2", "m3", "m4"}

AbsentMenu == [exists |-> FALSE, parent_id |-> NULL, is_deleted |-> FALSE]

\* db.commit() of a request that changes the menus table
MenuCommitted ==
    /\ mutations < MaxMutations
    /\ mutations' = mutations + 1
    /\ UNCHANGED <<faultVars, sessionVars, snowflakeVars, flightVars>>

\* SELECT ... WHERE Menu.id == menu_id AND Menu.is_deleted == False
get_menu_by_id(menu_id) ==
    menu_id \in MenuIds /\ menus[menu_id].exists /\ ~menus[menu_id].is_deleted

validate_parent_menu(parent_id) ==
    IF parent_id = NULL THEN TRUE ELSE get_menu_by_id(parent_id)

\* the while loop of check_circular_reference
RECURSIVE check_circular_walk(_, _, _)
check_circular_walk(menu_id, current_id, visited) ==
    IF current_id = NULL THEN TRUE
    ELSE IF current_id \in visited THEN FALSE
    ELSE IF current_id = menu_id THEN FALSE
    ELSE IF ~get_menu_by_id(current_id) THEN TRUE
    ELSE check_circular_walk(menu_id, menus[current_id].parent_id,
                             visited \cup {current_id})

\* TRUE: no circular reference, safe to update
check_circular_reference(menu_id, new_parent_id) ==
    IF new_parent_id = NULL THEN TRUE
    ELSE IF menu_id = new_parent_id THEN FALSE
    ELSE check_circular_walk(menu_id, new_parent_id, {})

\* the rows get_all_menus_tree hands to build_menu_tree
live_menus == SetToSeq({m \in MenuIds : get_menu_by_id(m)})

\* build_menu_tree: the root list and the children list of every node
build_menu_tree(ms) ==
    [roots |-> SelectSeq(ms, LAMBDA m : menus[m].parent_id = NULL),
     children |-> [p \in Range(ms) |->
                     SelectSeq(ms, LAMBDA m : menus[m].parent_id = p)]]

RejectedMenu(name, code, node, parent) ==
    /\ last' = [NoRequest EXCEPT !.op = name, !.user = "admin", !.outcome = code,
                   !.node = node, !.parent = parent]
    /\ UNCHANGED <<factVars, cache, mutations, auxVars>>

\* POST /menus
CreateMenu(parent_id) ==
    IF ~validate_parent_menu(parent_id)
    THEN RejectedMenu("create_menu", "400", NULL, parent_id)
    ELSE
        /\ \E m \in MenuIds : ~menus[m].exists
        /\ MenuCommitted
        /\ LET id == CHOOSE m \in MenuIds : ~menus[m].exists
           IN  /\ menus' = [menus EXCEPT ![id] =
                              [exists |-> TRUE, parent_id |-> parent_id, is_deleted |-> FALSE]]
               /\ last' = [NoRequest EXCEPT !.op = "create_menu", !.user = "admin",
                              !.outcome = "ok", !.node = id, !.parent = parent_id]
        /\ UNCHANGED <<factVars, cache>>

\* PUT /menus/{menu_id}; the body may or may not carry parent_id
UpdateMenu(menu_id, has_parent_id, new_parent_id) ==
    IF ~get_menu_by_id(menu_id)
    THEN RejectedMenu("update_menu", "404", menu_id, new_parent_id)
    ELSE IF has_parent_id /\ ~validate_parent_menu(new_parent_id)
    THEN RejectedMenu("update_menu", "400", menu_id, new_parent_id)
    ELSE IF has_parent_id /\ ~check_circular_reference(menu_id, new_parent_id)
    THEN RejectedMenu("update_menu", "400", menu_id, new_parent_id)
    ELSE
        /\ MenuCommitted
        /\ menus' = IF has_parent_id
                    THEN [menus EXCEPT ![menu_id].parent_id = new_parent_id]
                    ELSE menus
        /\ last' = [NoRequest EXCEPT !.op = "update_menu", !.user = "admin",
                       !.outcome = "ok", !.node = menu_id, !.parent = new_parent_id]
        /\ UNCHANGED <<factVars, cache>>

\* DELETE /menus/{menu_id}: soft delete, children are not looked at
DeleteMenu(menu_id) ==
    IF ~get_menu_by_id(menu_id)
    THEN RejectedMenu("delete_menu", "404", menu_id, NULL)
    ELSE
        /\ MenuCommitted
        /\ menus' = [menus EXCEPT ![menu_id].is_deleted = TRUE]
        /\ last' = [NoRequest EXCEPT !.op = "delete_menu", !.user = "admin",
                       !.outcome = "ok", !.node = menu_id]
        /\ UNCHANGED <<factVars, cache>>

\* a call of MenuService.check_circular_reference on the current table
CheckCircularReference(menu_id, new_parent_id) ==
    /\ last' = [NoRequest EXCEPT !.op = "check_circular_reference",
                   !.node = menu_id, !.parent = new_parent_id,
                   !.outcome = IF check_circular_reference(menu_id, new_parent_id)
                               THEN "safe" ELSE "cycle"]
    /\ UNCHANGED <<factVars, cache, mutations, auxVars>>

\* GET /menus/tree/all: get_all_menus_tree -> build_menu_tree
BuildMenuTree ==
    /\ last' = [NoRequest EXCEPT !.op = "build_menu_tree", !.outcome = "ok",
                   !.required = Range(live_menus),
                   !.value = build_menu_tree(live_menus)]
    /\ UNCHANGED <<factVars, cache, mutations, auxVars>>

\* the rows get_permissions hands to build_permission_tree (non-deleted)
live_permissions ==
    SetToSeq({p \in PermIds : permissions[p].exists /\ ~permissions[p].is_deleted})

\* build_permission_tree: a node whose parent is not in the input is a root
build_permission_tree(ps) ==
    IF ps = <<>> THEN [roots |-> <<>>, children |-> <<>>]
    ELSE [roots |-> SelectSeq(ps, LAMBDA p :
                        \/ permissions[p].parent_id = NO_PARENT
                        \/ permissions[p].parent_id \notin Range(ps)),
          children |-> [q \in Range(ps) |->
                          SelectSeq(ps, LAMBDA p : permissions[p].parent_id = q)]]

\* PermissionService.create_permission: Permission(**perm_data.model_dump()),
\* a parent_id of None takes the column default 0; nothing is validated.
\* The id is generated at insert, so the body cannot name it as the parent.
CreatePermission(parent_id) ==
    /\ \E p \in PermIds : ~permissions[p].exists
    /\ Committed
    /\ LET id == CHOOSE p \in PermIds : ~permissions[p].exists
       IN  /\ parent_id # id
           /\ permissions' = [permissions EXCEPT ![id] =
                                [PermissionRow(id) EXCEPT !.parent_id = parent_id]]
           /\ last' = [NoRequest EXCEPT !.op = "create_permission", !.user = "admin",
                          !.outcome = "ok", !.node = id, !.parent = parent_id]
    /\ UNCHANGED <<users, roles, user_roles, role_permissions, role_departments,
                   departments, cache>>

\* PermissionService.update_permission with parent_id in the body
UpdatePermission(perm_id, parent_id) ==
    IF ~(permissions[perm_id].exists /\ ~permissions[perm_id].is_deleted)
    THEN RejectedMenu("update_permission", "404", perm_id, parent_id)
    ELSE
        /\ Committed
        /\ permissions' = [permissions EXCEPT ![perm_id].parent_id = parent_id]
        /\ last' = [NoRequest EXCEPT !.op = "update_permission", !.user = "admin",
                       !.outcome = "ok", !.node = perm_id, !.parent = parent_id]
        /\ UNCHANGED <<users, roles, user_roles, role_permissions, role_departments,
                       departments, cache>>

\* GET /roles/permissions/tree: get_permissions -> build_permission_tree
BuildPermissionTree ==
    /\ last' = [NoRequest EXCEPT !.op = "build_permission_tree", !.outcome = "ok",
                   !.required = Range(live_permissions),
                   !.value = build_permission_tree(live_permissions)]
    /\ UNCHANGED <<factVars, cache, mutations, auxVars>>

(***************************************************************************)
(* Single-session login (AuthService.create_tokens / refresh_token,        *)
(* get_current_user, logout) for one account.  An access token is the JWT  *)
(* of the claims and `exp`; two tokens of the account are the same string  *)
(* exactly when their `exp` is the same second.                            *)
(***************************************************************************)
\* settings.SINGLE_SESSION_MODE of the deployment under study
SINGLE_SESSION_MODE == TRUE
\* settings.ACCESS_TOKEN_EXPIRE_MINUTES
ACCESS_TOKEN_EXPIRE_MINUTES == 30
\* access_token_expires.total_seconds()
access_token_expires == ACCESS_TOKEN_EXPIRE_MINUTES * 60

\* seconds of the clock the model looks at: the first ones, and the first
\* ones after a token life time has passed
ClockValues == (0..MaxSeconds) \cup (access_token_expires..(access_token_expires + MaxSeconds))

NoSession == [present |-> FALSE, token |-> 0, expires_at |-> 0]

\* create_access_token(claims, access_token_expires)
create_access_token == now + access_token_expires

\* decode_token: None once `exp` lies in the past
decode_token(token) == now <= token

\* redis.get("user_session:{user.id}"); the key is gone once its `ex` has passed
active_token ==
    IF user_session.present /\ now < user_session.expires_at
    THEN [present |-> TRUE, token |-> user_session.token]
    ELSE [present |-> FALSE, token |-> 0]

\* get_current_user: "ok" or the detail of the 401
get_current_user(token) ==
    IF ~decode_token(token) THEN "invalid_credentials"
    ELSE IF SINGLE_SESSION_MODE /\ active_token.present /\ active_token.token # token
    THEN "logged_in_elsewhere"
    ELSE "ok"

\* Redis single-session storage of create_tokens / refresh_token
store_session(access_token) ==
    IF SINGLE_SESSION_MODE
    THEN [present |-> TRUE, token |-> access_token, expires_at |-> now + access_token_expires]
    ELSE user_session

SessionStep(name, token, outcome) ==
    /\ last' = [NoRequest EXCEPT !.op = name, !.user = "u1", !.token = token,
                   !.outcome = outcome]
    /\ UNCHANGED <<factVars, cache, mutations, menus, faultVars, now, snowflakeVars,
                   flightVars>>

\* POST /auth/login -> AuthService.login -> create_tokens
Login ==
    /\ Len(tokens) < MaxLogins
    /\ tokens' = Append(tokens, [access |-> create_access_token, by |-> "login"])
    /\ UNCHANGED blacklist
    /\ user_session' = store_session(create_access_token)
    /\ SessionStep("login", create_access_token, "200")

\* POST /auth/refresh with the refresh token of login i (valid for 7 days)
Refresh(i) ==
    /\ Len(tokens) < MaxLogins + 1
    /\ tokens[i].by = "login"
    /\ tokens' = Append(tokens, [access |-> create_access_token, by |-> "refresh"])
    /\ UNCHANGED blacklist
    /\ user_session' = store_session(create_access_token)
    /\ SessionStep("refresh", create_access_token, "200")

\* any guarded request carrying the access token issued i-th
Request(i) ==
    LET token == tokens[i].access
        checked == get_current_user(token)
    IN  /\ UNCHANGED <<tokens, user_session, blacklist>>
        /\ SessionStep("request", token, IF checked = "ok" THEN "200" ELSE "401")

\* get_token_expiry_seconds(payload)
get_token_expiry_seconds(token) == IF token > now THEN token - now ELSE 0

\* blacklist_token: redis.set("token:blacklist:{hash}", "1", ex=expires_in)
blacklist_token(token) == blacklist \cup {token}

\* is_token_blacklisted; the key is gone once its `ex` has passed
is_token_blacklisted(token) == token \in blacklist /\ now < token

\* POST /auth/logout: the token is blacklisted and the session key is deleted
Logout(i) ==
    LET token == tokens[i].access
        checked == get_current_user(token)
    IN  /\ UNCHANGED tokens
        /\ blacklist' = IF checked = "ok" /\ get_token_expiry_seconds(token) > 0
                        THEN blacklist_token(token) ELSE blacklist
        /\ user_session' = IF checked = "ok" /\ SINGLE_SESSION_MODE
                           THEN NoSession ELSE user_session
        /\ SessionStep("logout", token, IF checked = "ok" THEN "200" ELSE "401")

\* POST /logs/online/{user_id}/force-logout by an administrator, for the
\* account under study: the session key is deleted
ForceLogoutUser ==
    /\ user_session' = NoSession
    /\ UNCHANGED <<tokens, blacklist>>
    /\ SessionStep("force_logout_user", 0, "200")

\* the clock advances by a second or by a token life time
Tick(d) ==
    /\ now + d \in ClockValues
    /\ now' = now + d
    /\ UNCHANGED <<factVars, cache, last, mutations, menus, faultVars,
                   user_session, tokens, blacklist, snowflakeVars, flightVars>>

(***************************************************************************)
(* SnowflakeIDGenerator (app/utils/snowflake.py).  `millis` is the clock   *)
(* reading minus the generator's epoch.                                    *)
(***************************************************************************)
SEQUENCE_BITS == 12
MAX_SEQUENCE == 2^SEQUENCE_BITS - 1
DATACENTER_SHIFT == 17
TIMESTAMP_SHIFT == 22
WORKER_SHIFT == SEQUENCE_BITS
\* constructor defaults
datacenter_id == 0
worker_id == 0
\* largest backwards step of the clock that generate_id sleeps through
MAX_BACKWARD_MS == 5

Threads == {"t1", "t2"}
Idle == [pc |-> "idle", id |-> 0, ticket |-> 0]

\* the bit fields of an id are disjoint, so `|` of the shifted fields is `+`
snowflake_id(timestamp, sequence) ==
    timestamp * 2^TIMESTAMP_SHIFT + datacenter_id * 2^DATACENTER_SHIFT
        + worker_id * 2^WORKER_SHIFT + sequence

\* next_sequence with a fault: the sequence is not advanced
next_sequence_stuck(sequence) == sequence

\* (self.sequence + 1) & self.MAX_SEQUENCE
next_sequence(sequence) == (sequence + 1) % (MAX_SEQUENCE + 1)

SnowflakeFrame ==
    UNCHANGED <<factVars, cache, last, mutations, menus, faultVars, sessionVars,
                flightVars>>

\* the body of `with self.lock:` for a call whose clock reading, after a
\* possible sleep, is `timestamp`; `waited` is the reading _wait_next_millis
\* ends with when the sequence has wrapped
Generated(t, timestamp, waited) ==
    LET same == timestamp = generator.last_timestamp
        sequence == IF same THEN next_sequence(generator.sequence) ELSE 0
        wrapped == same /\ sequence = 0
        ts == IF wrapped THEN waited ELSE timestamp
    IN  /\ wrapped => waited > generator.last_timestamp
        /\ ~wrapped => waited = timestamp
        /\ millis' = ts
        /\ generator' = [sequence |-> sequence, last_timestamp |-> ts,
                         issued |-> generator.issued + 1]
        /\ threads' = [threads EXCEPT ![t] =
                          [pc |-> "return", id |-> snowflake_id(ts, sequence),
                           ticket |-> generator.issued + 1]]
        /\ UNCHANGED returned

\* RuntimeError("Clock moved backwards ..."): no id, nothing changes
ClockError(t, reading) ==
    /\ millis' = reading
    /\ UNCHANGED <<generator, threads, returned>>

\* generate_id up to the release of the lock; threads are serialised by the
\* lock, so the block is one step
GenerateId(t) ==
    /\ threads[t].pc = "idle"
    /\ generator.issued < MaxCalls
    /\ LET timestamp == millis
           offset == generator.last_timestamp - timestamp
       IN  IF timestamp < generator.last_timestamp
           THEN IF offset <= MAX_BACKWARD_MS
                THEN \E reading \in timestamp..MaxMillis :
                        IF reading < generator.last_timestamp
                        THEN ClockError(t, reading)
                        ELSE \E waited \in reading..MaxMillis :
                                Generated(t, reading, waited)
                ELSE ClockError(t, timestamp)
           ELSE \E waited \in timestamp..MaxMillis : Generated(t, timestamp, waited)
    /\ SnowflakeFrame

\* the call returns to its caller after the lock has been released
ReturnId(t) ==
    /\ threads[t].pc = "return"
    /\ returned' = Append(returned, [id |-> threads[t].id, ticket |-> threads[t].ticket,
                                     thread |-> t])
    /\ threads' = [threads EXCEPT ![t] = Idle]
    /\ UNCHANGED <<millis, generator>>
    /\ SnowflakeFrame

\* the system clock moves: forwards, or backwards after an adjustment
ClockStep(reading) ==
    /\ reading # millis
    /\ millis' = reading
    /\ UNCHANGED <<generator, threads, returned>>
    /\ SnowflakeFrame

(***************************************************************************)
(* Requests in flight.  Every request has its own AsyncSession; what it    *)
(* SELECTs are the committed rows (PostgreSQL, READ COMMITTED), and its    *)
(* own writes reach the table at the db.commit() of its endpoint.          *)
(***************************************************************************)
\* two PUT /menus/{menu_id} requests served at the same time
MenuRequests == {"a", "b"}

NoMenuSession == [pc |-> "idle", menu_id |-> NULL, parent_id |-> NULL]

\* MenuService.update_menu of request x with a parent_id in the body: the
\* checks read the committed table; flush() sends the UPDATE, which waits
\* while another session holds the lock of the same row
UpdateMenuFlush(x, menu_id, new_parent_id) ==
    /\ menu_sessions[x].pc = "idle"
    /\ \A y \in MenuRequests : menu_sessions[y].pc = "flushed"
                                  => menu_sessions[y].menu_id # menu_id
    /\ IF ~get_menu_by_id(menu_id)
       THEN RejectedMenu("update_menu", "404", menu_id, new_parent_id)
       ELSE IF ~validate_parent_menu(new_parent_id)
       THEN RejectedMenu("update_menu", "400", menu_id, new_parent_id)
       ELSE IF ~check_circular_reference(menu_id, new_parent_id)
       THEN RejectedMenu("update_menu", "400", menu_id, new_parent_id)
       ELSE /\ menu_sessions' = [menu_sessions EXCEPT ![x] =
                                   [pc |-> "flushed", menu_id |-> menu_id,
                                    parent_id |-> new_parent_id]]
            /\ UNCHANGED <<factVars, cache, last, mutations, menus, faultVars,
                           sessionVars, snowflakeVars, resolving, dept_cache,
                           dept_sessions, dept_readers>>

\* `await db.commit()` of request x in api/v1/menus.py update_menu
UpdateMenuCommit(x) ==
    /\ menu_sessions[x].pc = "flushed"
    /\ mutations < MaxMutations
    /\ mutations' = mutations + 1
    /\ menus' = [menus EXCEPT ![menu_sessions[x].menu_id].parent_id =
                                 menu_sessions[x].parent_id]
    /\ menu_sessions' = [menu_sessions EXCEPT ![x] = NoMenuSession]
    /\ last' = [NoRequest EXCEPT !.op = "update_menu", !.user = "admin",
                   !.outcome = "ok", !.node = menu_sessions[x].menu_id,
                   !.parent = menu_sessions[x].parent_id]
    /\ UNCHANGED <<factVars, cache, faultVars, sessionVars, snowflakeVars,
                   resolving, dept_cache, dept_sessions, dept_readers>>

\* a get_user_permissions call that is not between its query and its cache write
NotResolving == [pc |-> "idle", perms |-> {}]

\* no department write waits for its db.commit()
NoDeptSession == [pc |-> "idle", op |-> "none", dept_id |-> NULL, parent_id |-> NULL]

\* no get_departments call is between its SELECT and its cache write
NotReading == [pc |-> "idle", rows |-> {}]

\* get_user_permissions of a request for user u, from its cache lookup (a
\* miss) to the end of its queries: the rows read are the committed ones
QueryUserPermissions(u) ==
    /\ resolving[u].pc = "idle"
    /\ ~PermissionCache_get_user_permissions(u).present
    /\ ~db_fault
    /\ resolving' = [resolving EXCEPT ![u] =
                        [pc |-> "queried", perms |-> db_user_permissions(u)]]
    /\ UNCHANGED <<factVars, cache, last, mutations, menus, faultVars, sessionVars,
                   snowflakeVars, menu_sessions, dept_cache, dept_sessions,
                   dept_readers>>

\* the same call from PermissionCache.set_user_permissions to its return
StoreUserPermissions(u) ==
    /\ resolving[u].pc = "queried"
    /\ cache' = PermissionCache_set_user_permissions(u, resolving[u].perms)
    /\ resolving' = [resolving EXCEPT ![u] = NotResolving]
    /\ last' = [NoRequest EXCEPT !.op = "get_user_permissions", !.user = u,
                   !.outcome = "ok", !.value = resolving[u].perms,
                   !.redis_fault = redis_fault, !.db_fault = db_fault,
                   !.cache_ops = 2,
                   !.store_queries = db_user_permissions_queries(u)]
    /\ UNCHANGED <<factVars, mutations, menus, faultVars, sessionVars,
                   snowflakeVars, menu_sessions, dept_cache, dept_sessions,
                   dept_readers>>

\* a call of clear_user_permission_cache(u)
ClearUserPermissionCache(u) ==
    /\ cache' = clear_user_permission_cache(cache, u)
    /\ last' = [NoRequest EXCEPT !.op = "clear_user_permission_cache", !.user = u,
                   !.outcome = "ok", !.cache_ops = 1]
    /\ UNCHANGED <<factVars, mutations, auxVars>>

\* DepartmentCache.get_departments_list as get_departments uses it: an
\* absent key and a cached empty list are both a miss (`if cached_data:`)
DepartmentCache_get_departments_list ==
    IF dept_cache.present /\ dept_cache.value # {} THEN dept_cache ELSE None

\* DepartmentCache.set_departments_list: redis.set without `ex`
DepartmentCache_set_departments_list(rows) == Some(rows)

DeptFlightFrame ==
    UNCHANGED <<users, roles, permissions, user_roles, role_permissions,
                role_departments, cache, menus, faultVars, sessionVars,
                snowflakeVars, menu_sessions, resolving>>

\* GET /departments answered from the cache
GetDepartmentsHit ==
    /\ dept_readers.pc = "idle"
    /\ DepartmentCache_get_departments_list.present
    /\ last' = [NoRequest EXCEPT !.op = "get_departments", !.outcome = "hit",
                   !.value = DepartmentCache_get_departments_list.value]
    /\ UNCHANGED <<departments, mutations, dept_cache, dept_sessions, dept_readers>>
    /\ DeptFlightFrame

\* GET /departments on a cache miss, up to the result of its SELECT
GetDepartmentsSelect ==
    /\ dept_readers.pc = "idle"
    /\ ~DepartmentCache_get_departments_list.present
    /\ dept_readers' = [pc |-> "selected", rows |-> db_departments]
    /\ UNCHANGED <<departments, mutations, last, dept_cache, dept_sessions>>
    /\ DeptFlightFrame

\* the same call from DepartmentCache.set_departments_list to its return
GetDepartmentsStore ==
    /\ dept_readers.pc = "selected"
    /\ dept_cache' = DepartmentCache_set_departments_list(dept_readers.rows)
    /\ dept_readers' = NotReading
    /\ last' = [NoRequest EXCEPT !.op = "get_departments", !.outcome = "miss",
                   !.value = dept_readers.rows]
    /\ UNCHANGED <<departments, mutations, dept_sessions>>
    /\ DeptFlightFrame

\* the service call of a department write has flushed and cleared the cache
DeptFlushed(op, dept_id, parent_id) ==
    /\ dept_sessions' = [pc |-> "flushed", op |-> op, dept_id |-> dept_id,
                         parent_id |-> parent_id]
    /\ dept_cache' = DepartmentCache_clear_all_cache
    /\ UNCHANGED <<departments, mutations, last, dept_readers>>
    /\ DeptFlightFrame

\* DepartmentService.update_department of PUT /departments/{dept_id}
UpdateDepartmentFlush(dept_id, parent_id) ==
    /\ dept_sessions.pc = "idle"
    /\ IF ~get_department_by_id(dept_id)
       THEN Rejected("update_department", "404")
       ELSE IF parent_id # NULL /\ is_own_parent(parent_id, dept_id)
       THEN Rejected("update_department", "400")
       ELSE IF parent_id # NULL /\ ~get_department_by_id(parent_id)
       THEN Rejected("update_department", "400")
       ELSE DeptFlushed("update_department", dept_id, parent_id)

\* DepartmentService.delete_department of DELETE /departments/{dept_id}
DeleteDepartmentFlush(dept_id) ==
    /\ dept_sessions.pc = "idle"
    /\ IF ~get_department_by_id(dept_id)
       THEN Rejected("delete_department", "404")
       ELSE IF db_child_ids(dept_id) # {}
       THEN Rejected("delete_department", "400")
       ELSE DeptFlushed("delete_department", dept_id, NULL)

\* `await db.commit()` of the endpoint, and its response
DepartmentCommit ==
    /\ dept_sessions.pc = "flushed"
    /\ mutations < MaxMutations
    /\ mutations' = mutations + 1
    /\ departments' =
          IF dept_sessions.op = "delete_department"
          THEN [departments EXCEPT ![dept_sessions.dept_id].is_deleted = TRUE]
          ELSE [departments EXCEPT ![dept_sessions.dept_id].parent_id =
                                       dept_sessions.parent_id]
    /\ dept_sessions' = NoDeptSession
    /\ last' = [NoRequest EXCEPT !.op = dept_sessions.op, !.user = "admin",
                   !.outcome = "ok"]
    /\ UNCHANGED <<dept_cache, dept_readers>>
    /\ DeptFlightFrame

(***************************************************************************)
(* Specification of the authorization cache: a seeded Fact Store, the      *)
(* resolvers, the guards, the row filter and the role / permission         *)
(* assignment flows.                                                       *)
(***************************************************************************)
\* no request is between two of its awaits, no department list is cached
FlightInit ==
    /\ menu_sessions = [x \in MenuRequests |-> NoMenuSession]
    /\ resolving = [u \in UserIds |-> NotResolving]
    /\ dept_cache = None
    /\ dept_sessions = NoDeptSession
    /\ dept_readers = NotReading

NoCache == [permissions |-> KeyAbsent, roles |-> KeyAbsent, data_scope |-> KeyAbsent]

\* seeded menus: the chain m1 <- m2 <- m3; m4 is not created yet
SeedMenus ==
    [m \in MenuIds |->
        CASE m = "m1" -> [exists |-> TRUE, parent_id |-> NULL, is_deleted |-> FALSE]
          [] m = "m2" -> [exists |-> TRUE, parent_id |-> "m1", is_deleted |-> FALSE]
          [] m = "m3" -> [exists |-> TRUE, parent_id |-> "m2", is_deleted |-> FALSE]
          [] OTHER -> AbsentMenu]

\* SnowflakeIDGenerator.__init__
FreshGenerator == [sequence |-> 0, last_timestamp |-> -1, issued |-> 0]

\* the state outside the authorization stores after start-up
AuxInit ==
    /\ menus = SeedMenus
    /\ redis_fault = "none"
    /\ db_fault = FALSE
    /\ now = 0
    /\ user_session = NoSession
    /\ tokens = <<>>
    /\ blacklist = {}
    /\ millis = 0
    /\ generator = FreshGenerator
    /\ threads = [t \in Threads |-> Idle]
    /\ returned = <<>>
    /\ FlightInit

SeedDepartments ==
    [d \in DeptIds |->
        [exists |-> TRUE, parent_id |-> IF d = "d2" THEN "d1" ELSE NULL, is_deleted |-> FALSE]]

Init ==
    /\ users = [u \in UserIds |->
                  [user_type |-> IF u = "admin" THEN SUPERADMIN ELSE NORMAL_USER,
                   dept_id |-> IF u = "u1" THEN "d1" ELSE NULL]]
    /\ roles = [r \in RoleIds |->
                  [status |-> 1, is_deleted |-> FALSE,
                   data_scope |-> IF r = "r1" THEN DEPT ELSE ALL]]
    /\ permissions = [p \in PermIds |-> PermissionRow(p)]
    /\ user_roles = [u \in UserIds |->
                       CASE u = "u1" -> {"r1"} [] u = "u2" -> {"r1", "r2"} [] OTHER -> {}]
    /\ role_permissions = [r \in RoleIds |-> IF r = "r1" THEN {1, 3} ELSE {2}]
    /\ role_departments = [r \in RoleIds |-> {}]
    /\ departments = SeedDepartments
    /\ cache = [u \in UserIds |-> NoCache]
    /\ last = NoRequest
    /\ mutations = 0
    /\ AuxInit

\* permission codes an endpoint may require
RequiredCodes == {Codes({"user:list"}), Codes({"user:list", "user:update"})}
\* role codes an endpoint may require
RequiredRoles == {Codes({"r1"}), Codes({"r1", "r2"})}
\* arguments the decorators are applied with in api/v1: codes, or one list
DecoratorArgs == RequiredCodes \cup {CodeList({"user:list"})}

RoleAssignments == {ui \in UserUpdates : ui.dept_id = NULL /\ ui.has_role_ids}

\* permission-id lists a role update may carry
PermissionIdLists == {{}, {1}, PermIds \ {1}, PermIds}
\* data scopes a role update may carry
DataScopeInputs == {ALL, SELF}

\* a request body sets one field of the role
OneFieldRoleUpdates ==
    {rd \in RoleUpdates :
        \/ rd.has_status /\ ~rd.has_data_scope /\ ~rd.has_permission_ids
              /\ rd.data_scope = ALL /\ rd.permission_ids = {}
        \/ ~rd.has_status /\ rd.has_data_scope /\ ~rd.has_permission_ids
              /\ rd.status = 1 /\ rd.permission_ids = {}
              /\ rd.data_scope \in DataScopeInputs
        \/ ~rd.has_status /\ ~rd.has_data_scope /\ rd.has_permission_ids
              /\ rd.status = 1 /\ rd.data_scope = ALL
              /\ rd.permission_ids \in PermissionIdLists}

\* u1 is the principal whose three facts are resolved; u2 is a second holder
\* of the same roles whose permission set is resolved
Next ==
    \/ \E u \in OrdinaryUsers : GetUserPermissions(u)
    \/ \E u \in {"u1"} : GetUserRoles(u)
    \/ \E u \in {"u1"} : GetUserDataScope(u)
    \/ \E u \in OrdinaryUsers, kind \in {"permissions", "roles", "data_scope"} : Expire(u, kind)
    \/ \E u \in OrdinaryUsers, user_in \in RoleAssignments : UpdateUser(u, user_in)
    \/ \E r \in RoleIds, role_data \in OneFieldRoleUpdates : UpdateRole(r, role_data)
    \/ \E r \in RoleIds : DeleteRole(r)

Spec == Init /\ [][Next]_vars

(***************************************************************************)
(* Specification of the guards: requests of the superadmin, of an ordinary *)
(* user and of an unauthenticated caller pass the guards and the row       *)
(* filter while role assignments change.                                   *)
(***************************************************************************)
GuardedUsers == {"admin", "u1"}

NextGuard ==
    \/ \E u \in GuardedUsers, required \in RequiredCodes : PermissionChecker(u, required)
    \/ \E cu \in GuardedUsers \cup {NULL}, required \in DecoratorArgs :
            RequirePermissions(cu, required)
    \/ \E cu \in GuardedUsers \cup {NULL}, required \in DecoratorArgs :
            RequireAnyPermission(cu, required)
    \/ \E cu \in GuardedUsers \cup {NULL}, rc \in RequiredRoles : RequireRoles(cu, rc)
    \/ \E u \in GuardedUsers, has_dept_id \in BOOLEAN : ApplyDataScopeFilter(u, has_dept_id)
    \/ \E u \in GuardedUsers, user_in \in RoleAssignments : UpdateUser(u, user_in)
    \/ \E r \in RoleIds, role_data \in OneFieldRoleUpdates : UpdateRole(r, role_data)

SpecGuard == Init /\ [][NextGuard]_vars

(***************************************************************************)
(* Specification of the row filter: apply_data_scope_filter is a function  *)
(* of the Fact Store, so the store is drawn from the states the flows      *)
(* above can produce and the filter is applied to it.                      *)
(***************************************************************************)
\* department tables: the seeded forest (d2 under d1, d3 a root), the same
\* with d3 soft-deleted, the chain d1 <- d2 <- d3, and the loop that two
\* update_department calls make of d1 and d2
DepartmentTables ==
    LET live(p) == [exists |-> TRUE, parent_id |-> p, is_deleted |-> FALSE]
    IN  { SeedDepartments,
          [SeedDepartments EXCEPT !["d3"].is_deleted = TRUE],
          [d \in DeptIds |-> live(CASE d = "d2" -> "d1" [] d = "d3" -> "d2" [] OTHER -> NULL)],
          [d \in DeptIds |-> live(CASE d = "d1" -> "d2" [] d = "d2" -> "d1" [] OTHER -> NULL)] }

InitScope ==
    /\ users \in {[u \in UserIds |->
                      [user_type |-> IF u = "admin" THEN SUPERADMIN ELSE NORMAL_USER,
                       dept_id |-> IF u = "u1" THEN d ELSE NULL]] : d \in DeptIds \cup {NULL}}
    /\ roles \in {[r \in RoleIds |->
                      [status |-> IF r = "r1" THEN st ELSE 1, is_deleted |-> FALSE,
                       data_scope |-> IF r = "r1" THEN s1 ELSE s2]] :
                    st \in {0, 1}, s1 \in DataScope, s2 \in {ALL, CUSTOM}}
    /\ permissions = [p \in PermIds |-> PermissionRow(p)]
    /\ user_roles \in {[u \in UserIds |-> IF u = "u2" THEN {} ELSE rs] : rs \in SUBSET RoleIds}
    /\ role_permissions = [r \in RoleIds |-> IF r = "r1" THEN {1, 3} ELSE {2}]
    /\ role_departments \in {[r \in RoleIds |-> IF r = "r1" THEN g1 ELSE g2] :
                               g1 \in {{}, {"d2"}}, g2 \in {{}, {"d3"}}}
    /\ departments \in DepartmentTables
    /\ cache = [u \in UserIds |-> NoCache]
    /\ last = NoRequest
    /\ mutations = 0
    /\ AuxInit

NextScope ==
    \E u \in GuardedUsers, has_dept_id \in BOOLEAN : ApplyDataScopeFilter(u, has_dept_id)

SpecScope == InitScope /\ [][NextScope]_vars

(***************************************************************************)
(* Specification of the department flows, from the seeded forest with d3   *)
(* not yet created.                                                        *)
(***************************************************************************)
InitDept ==
    /\ Init!1 /\ Init!2 /\ Init!3 /\ Init!4 /\ Init!5 /\ Init!6
    /\ departments = [SeedDepartments EXCEPT !["d3"] = AbsentDept]
    /\ cache = [u \in UserIds |-> NoCache]
    /\ last = NoRequest
    /\ mutations = 0
    /\ AuxInit

NextDept ==
    \/ \E parent_id \in DeptIds \cup {NULL} : CreateDepartment(parent_id)
    \/ \E d \in DeptIds, parent_id \in DeptIds \cup {NULL} : UpdateDepartment(d, parent_id)
    \/ \E d \in DeptIds : DeleteDepartment(d)
    \/ \E d \in DeptIds, include_self \in BOOLEAN : GetSubDepartments(d, include_self)

SpecDept == InitDept /\ [][NextDept]_vars

(***************************************************************************)
(* Specification of the hierarchies: menu and permission rows are created, *)
(* re-parented and deleted, the cycle check and the tree builders are      *)
(* called on what the flows leave behind.                                  *)
(***************************************************************************)
InitHierarchy ==
    /\ Init!1 /\ Init!2
    /\ permissions = [p \in PermIds |->
                        IF p = 1 THEN [PermissionRow(p) EXCEPT !.exists = FALSE]
                        ELSE PermissionRow(p)]
    /\ Init!4
    /\ role_permissions = [r \in RoleIds |-> IF r = "r1" THEN {3} ELSE {2}]
    /\ Init!6 /\ Init!7 /\ Init!8 /\ Init!9 /\ Init!10 /\ Init!11

NextHierarchy ==
    \/ \E parent_id \in MenuIds \cup {NULL} : CreateMenu(parent_id)
    \/ \E m \in MenuIds, has_parent_id \in BOOLEAN, parent_id \in MenuIds \cup {NULL} :
            UpdateMenu(m, has_parent_id, parent_id)
    \/ \E m \in MenuIds : DeleteMenu(m)
    \/ \E m \in MenuIds, parent_id \in MenuIds \cup {NULL, "0"} :
            CheckCircularReference(m, parent_id)
    \/ BuildMenuTree
    \/ \E parent_id \in PermIds \cup {NO_PARENT} : CreatePermission(parent_id)
    \/ \E p \in PermIds, parent_id \in PermIds \cup {NO_PARENT} : UpdatePermission(p, parent_id)
    \/ BuildPermissionTree

SpecHierarchy == InitHierarchy /\ [][NextHierarchy]_vars

(***************************************************************************)
(* Specification of the failure modes: Redis operations and store queries  *)
(* start and stop failing while the resolvers and the guards are called.   *)
(***************************************************************************)
SetRedisFault(f) ==
    /\ f # redis_fault
    /\ redis_fault' = f
    /\ UNCHANGED <<factVars, cache, last, mutations, menus, db_fault,
                   sessionVars, snowflakeVars, flightVars>>

SetDbFault(b) ==
    /\ b # db_fault
    /\ db_fault' = b
    /\ UNCHANGED <<factVars, cache, last, mutations, menus, redis_fault,
                   sessionVars, snowflakeVars, flightVars>>

NextFault ==
    \/ \E f \in RedisFaults : SetRedisFault(f)
    \/ \E b \in BOOLEAN : SetDbFault(b)
    \/ \E u \in {"u1"} : GetUserPermissions(u)
    \/ \E u \in {"u1"} : GetUserRoles(u)
    \/ \E u \in {"u1"} : GetUserDataScope(u)
    \/ \E role_data \in OneFieldRoleUpdates : UpdateRole("r1", role_data)

SpecFault == Init /\ [][NextFault]_vars

\* the guards under the same failures
NextFaultGuard ==
    \/ \E f \in RedisFaults : SetRedisFault(f)
    \/ \E b \in BOOLEAN : SetDbFault(b)
    \/ \E u \in GuardedUsers, required \in RequiredCodes : PermissionChecker(u, required)
    \/ \E cu \in GuardedUsers \cup {NULL}, required \in RequiredCodes :
            RequirePermissions(cu, required)
    \/ \E role_data \in OneFieldRoleUpdates : UpdateRole("r1", role_data)

SpecFaultGuard == Init /\ [][NextFaultGuard]_vars

(***************************************************************************)
(* Specification of single-session login.                                  *)
(***************************************************************************)
NextSession ==
    \/ Login
    \/ \E i \in 1..Len(tokens) : Refresh(i)
    \/ \E i \in 1..Len(tokens) : Request(i)
    \/ \E i \in 1..Len(tokens) : Logout(i)
    \/ ForceLogoutUser
    \/ \E d \in {1, access_token_expires} : Tick(d)

SpecSession == Init /\ [][NextSession]_vars

(***************************************************************************)
(* Specification of the id generator: a generator that is new, or that has *)
(* handed out the ids of millisecond 0 up to one of the last two sequence  *)
(* numbers, is called by two threads while the clock moves.                *)
(***************************************************************************)
InitSnowflake ==
    /\ Init!1 /\ Init!2 /\ Init!3 /\ Init!4 /\ Init!5
    /\ Init!6 /\ Init!7 /\ Init!8 /\ Init!9 /\ Init!10
    /\ menus = SeedMenus
    /\ redis_fault = "none"
    /\ db_fault = FALSE
    /\ now = 0
    /\ user_session = NoSession
    /\ tokens = <<>>
    /\ blacklist = {}
    /\ FlightInit
    /\ millis = 0
    /\ threads = [t \in Threads |-> Idle]
    /\ \/ generator = FreshGenerator /\ returned = <<>>
       \/ \E sequence \in {MAX_SEQUENCE - 1, MAX_SEQUENCE} :
            /\ generator = [sequence |-> sequence, last_timestamp |-> 0, issued |-> 0]
            /\ returned = <<[id |-> snowflake_id(0, sequence), ticket |-> 0, thread |-> "t1"]>>

NextSnowflake ==
    \/ \E t \in Threads : GenerateId(t)
    \/ \E t \in Threads : ReturnId(t)
    \/ \E reading \in 0..MaxMillis : ClockStep(reading)

SpecSnowflake == InitSnowflake /\ [][NextSnowflake]_vars

(***************************************************************************)
(* Specification of concurrent menu updates: two update_menu requests      *)
(* re-parent the menus of a forest with two roots, each one validated and  *)
(* flushed before it is committed.  No menu is deleted, so every cycle     *)
(* check walks live rows.                                                  *)
(***************************************************************************)
\* the roots m1 and m3, and m2 under m1
TwoRootMenus == [SeedMenus EXCEPT !["m3"].parent_id = NULL]

InitMenuRace ==
    /\ Init!1 /\ Init!2 /\ Init!3 /\ Init!4 /\ Init!5
    /\ Init!6 /\ Init!7 /\ Init!8 /\ Init!9 /\ Init!10
    /\ menus = TwoRootMenus
    /\ AuxInit!2 /\ AuxInit!3 /\ AuxInit!4 /\ AuxInit!5 /\ AuxInit!6 /\ AuxInit!7
    /\ AuxInit!8 /\ AuxInit!9 /\ AuxInit!10 /\ AuxInit!11 /\ AuxInit!12

NextMenuRace ==
    \/ \E x \in MenuRequests, m \in MenuIds, parent_id \in MenuIds \cup {NULL} :
            UpdateMenuFlush(x, m, parent_id)
    \/ \E x \in MenuRequests : UpdateMenuCommit(x)

SpecMenuRace == InitMenuRace /\ [][NextMenuRace]_vars

(***************************************************************************)
(* Specification of a resolution that overlaps role updates and calls of   *)
(* clear_user_permission_cache.                                            *)
(***************************************************************************)
NextResolveRace ==
    \/ \E u \in OrdinaryUsers : QueryUserPermissions(u)
    \/ \E u \in OrdinaryUsers : StoreUserPermissions(u)
    \/ \E u \in OrdinaryUsers : GetUserPermissions(u)
    \/ \E u \in OrdinaryUsers : ClearUserPermissionCache(u)
    \/ \E r \in RoleIds, role_data \in OneFieldRoleUpdates : UpdateRole(r, role_data)

SpecResolveRace == Init /\ [][NextResolveRace]_vars

(***************************************************************************)
(* Specification of the department cache: readers of the department list   *)
(* run while a department is re-parented or deleted.                       *)
(***************************************************************************)
NextDeptCache ==
    \/ GetDepartmentsHit
    \/ GetDepartmentsSelect
    \/ GetDepartmentsStore
    \/ \E d \in DeptIds, parent_id \in DeptIds \cup {NULL} : UpdateDepartmentFlush(d, parent_id)
    \/ \E d \in DeptIds : DeleteDepartmentFlush(d)
    \/ DepartmentCommit

SpecDeptCache == InitDept /\ [][NextDeptCache]_vars

(***************************************************************************)
(* Specification of cache expiry: the resolvers of u1, the role updates    *)
(* and the role assignments of Spec, with Redis removing every key whose   *)
(* expiry has passed (weak fairness of each Expire).                       *)
(***************************************************************************)
CacheKinds == {"permissions", "roles", "data_scope"}

NextExpiry ==
    \/ GetUserPermissions("u1")
    \/ GetUserRoles("u1")
    \/ GetUserDataScope("u1")
    \/ \E kind \in CacheKinds : Expire("u1", kind)
    \/ \E user_in \in RoleAssignments : UpdateUser("u1", user_in)
    \/ \E r \in RoleIds, role_data \in OneFieldRoleUpdates : UpdateRole(r, role_data)

SpecExpiry ==
    /\ Init
    /\ [][NextExpiry]_vars
    /\ \A kind \in CacheKinds : WF_cache(Expire("u1", kind))

(***************************************************************************)
(* Specification of the row filter next to the data-scope cache: the       *)
(* filter is built for u1 while get_user_data_scope fills the cache, role  *)
(* updates make the cached scope stale and Redis expires it.               *)
(***************************************************************************)
NextFilter ==
    \/ GetUserDataScope("u1")
    \/ Expire("u1", "data_scope")
    \/ \E has_dept_id \in BOOLEAN : ApplyDataScopeFilter("u1", has_dept_id)
    \/ \E r \in RoleIds, role_data \in OneFieldRoleUpdates : UpdateRole(r, role_data)

SpecFilter == Init /\ [][NextFilter]_vars

(***************************************************************************)
(* Properties.                                                             *)
(***************************************************************************)
ResolverOps == {"get_user_permissions", "get_user_roles", "get_user_data_scope"}
GuardOps == {"permission_checker", "require_permissions", "require_any_permission",
             "require_roles"}

\* the resolver call recorded in `last` went to the Fact Store (cache miss)
LastWasMiss == last.op \in ResolverOps /\ last.store_queries > 0

\* active roles assigned to u, as the data model defines "active"
ActiveRolesOf(u) ==
    {r \in RoleIds : r \in user_roles[u] /\ roles[r].status = 1 /\ ~roles[r].is_deleted}

\* C1: after update_user has replaced the roles of a user and committed, the
\* next get_user_permissions for that user returns none of the codes the
\* user held only through the removed roles, even when the permission
\* cache had been populated before the update.
C1_RevokedCodesNotResolved ==
    [][(/\ last.op = "update_user" /\ last.role_ids
        /\ last'.op = "get_user_permissions" /\ last'.user = last.user)
       => last'.value \cap last.value = {}]_vars

\* C2: when update_role has committed a new permission list for a role and
\* returned, the permission, role and data-scope cache keys of every user
\* holding that role have been deleted.
C2_RoleUpdateInvalidatesHolders ==
    (last.op = "update_role" /\ last.outcome = "ok" /\ last.permission_ids)
    => \A u \in UserIds : last.role \in user_roles[u] => cache[u] = NoCache

\* C3: cache transparency - whatever the cache holds, each resolver returns
\* the value derived from the Fact Store at the time of the call.
C3_CacheTransparency ==
    /\ last.op = "get_user_permissions" => last.value = db_user_permissions(last.user)
    /\ last.op = "get_user_roles" => last.value = db_user_roles(last.user)
    /\ last.op = "get_user_data_scope" => last.value = {db_user_data_scope(last.user)}

\* C4: idempotence - two consecutive calls of the same resolver for the same
\* user, with no Fact-Store mutation between them (a cache key may expire
\* between them), return the same result.
C4_Idempotence ==
    [][(last.op \in ResolverOps /\ last'.op = last.op /\ last'.user = last.user)
       => last'.value = last.value]_vars

\* the numerically smallest data_scope among the active roles of u, SELF when
\* there is none
MinScopeOfActiveRoles(u) ==
    IF ActiveRolesOf(u) = {} THEN SELF
    ELSE CHOOSE s \in DataScope :
            /\ \E r \in ActiveRolesOf(u) : roles[r].data_scope = s
            /\ \A r \in ActiveRolesOf(u) : s <= roles[r].data_scope

LastIsFilterOfOrdinaryUser ==
    /\ last.op = "apply_data_scope_filter"
    /\ users[last.user].user_type # SUPERADMIN

\* C5: for a user with user_type = 0 every guard admits the request and
\* apply_data_scope_filter adds no filter, whatever roles the user holds, and
\* neither touches the cache or the Fact Store.
C5_SuperadminBypass ==
    (last.op \in GuardOps \cup {"apply_data_scope_filter"} /\ last.user # NULL
        /\ users[last.user].user_type = SUPERADMIN)
    => /\ last.cache_ops = 0 /\ last.store_queries = 0
       /\ cache[last.user] = NoCache
       /\ last.op \in GuardOps => last.outcome = "allow"
       /\ last.op = "apply_data_scope_filter" => VisibleRows(last.filter) = Rows

\* the superadmin, holding no role at all, passes a guard that requires two
\* permission codes
C5_Witness ==
    /\ last.op = "permission_checker" /\ last.user = "admin"
    /\ user_roles["admin"] = {} /\ last.required = {"user:list", "user:update"}
    /\ last.outcome = "allow"

\* the permission set the data model defines: codes of ACTION-type, enabled,
\* non-deleted permissions linked to an active role of u
PermissionsOfActiveRoles(u) ==
    {permissions[p].code : p \in
        {q \in PermIds : /\ permissions[q].type = TYPE_ACTION
                         /\ permissions[q].status = 1
                         /\ ~permissions[q].is_deleted
                         /\ \E r \in ActiveRolesOf(u) : q \in role_permissions[r]}}

\* C6: on a cache miss get_user_permissions returns exactly the codes of the
\* ACTION-type, enabled, non-deleted permissions linked to an active role
\* assigned to the user; the empty set when the user has no active role.
C6_PermissionsOnMiss ==
    (LastWasMiss /\ last.op = "get_user_permissions")
    => last.value = PermissionsOfActiveRoles(last.user)

\* C7: on a cache miss get_user_data_scope returns the numerically smallest
\* data_scope among the active roles of the user, and SELF when the user has
\* no active role.
C7_DataScopeOnMiss ==
    (LastWasMiss /\ last.op = "get_user_data_scope")
    => /\ ActiveRolesOf(last.user) = {} => last.value = {SELF}
       /\ ActiveRolesOf(last.user) # {} =>
            \E r \in ActiveRolesOf(last.user) :
                /\ last.value = {roles[r].data_scope}
                /\ \A x \in ActiveRolesOf(last.user) :
                        roles[r].data_scope <= roles[x].data_scope

\* a miss for a user holding an active DEPT role and an active ALL role
\* resolves to ALL
C7_Witness ==
    /\ LastWasMiss /\ last.op = "get_user_data_scope"
    /\ \E r, x \in ActiveRolesOf(last.user) :
            roles[r].data_scope = DEPT /\ roles[x].data_scope = ALL
    /\ last.value = {ALL}

\* the only active role of u has scope CUSTOM and no RoleDepartment row
OnlyCustomRoleWithoutGrants(u) ==
    \E r \in RoleIds : /\ ActiveRolesOf(u) = {r}
                        /\ roles[r].data_scope = CUSTOM
                        /\ role_departments[r] = {}

\* C8: for a non-superadmin user whose only active role has scope CUSTOM and
\* no RoleDepartment row, the filter matches no row, for every target entity
\* (never the unfiltered query, never the ownership filter).
C8_CustomDenyEveryEntity ==
    (LastIsFilterOfOrdinaryUser /\ OnlyCustomRoleWithoutGrants(last.user))
    => VisibleRows(last.filter) = {}

\* departments whose ancestor chain contains dept_id
RECURSIVE HasAncestor(_, _, _)
HasAncestor(d, dept_id, steps) ==
    /\ steps > 0
    /\ departments[d].exists
    /\ departments[d].parent_id # NULL
    /\ \/ departments[d].parent_id = dept_id
       \/ HasAncestor(departments[d].parent_id, dept_id, steps - 1)

DepartmentAndDescendants(dept_id) ==
    IF dept_id = NULL THEN {}
    ELSE {dept_id} \cup {d \in DeptIds : /\ departments[d].exists
                                          /\ ~departments[d].is_deleted
                                          /\ HasAncestor(d, dept_id, Cardinality(DeptIds))}

\* C9: for a user whose effective scope is DEPT_AND_SUB and an entity that
\* has dept_id, the filter keeps exactly the rows whose dept_id is the user's
\* department or a non-deleted descendant of it, and no row of any other
\* department.
C9_DeptAndSubRows ==
    (LastIsFilterOfOrdinaryUser /\ last.has_dept_id
        /\ MinScopeOfActiveRoles(last.user) = DEPT_AND_SUB)
    => /\ ~last.filter.raised
       /\ VisibleRows(last.filter) =
            {row \in Rows : row.dept_id \in DepartmentAndDescendants(users[last.user].dept_id)}

MenuParentOf(m) ==
    IF m \in MenuIds /\ menus[m].exists THEN menus[m].parent_id ELSE NULL

\* the rows reached from m by following parent_id at most n times
RECURSIVE MenuAncestors(_, _)
MenuAncestors(m, n) ==
    IF n = 0 \/ MenuParentOf(m) = NULL THEN {}
    ELSE {MenuParentOf(m)} \cup MenuAncestors(MenuParentOf(m), n - 1)

\* C11: starting from an acyclic menu set, after any sequence of
\* create_menu, update_menu and delete_menu calls the parent_id graph over
\* the menu rows contains no cycle: no menu is its own ancestor.
C11_MenusAcyclic ==
    \A m \in MenuIds :
        menus[m].exists => m \notin MenuAncestors(m, Cardinality(MenuIds))

\* the parent a department row points at
DeptParentOf(d) ==
    IF d \in DeptIds /\ departments[d].exists THEN departments[d].parent_id ELSE NULL

\* the rows reached from d by following parent_id at most n times
RECURSIVE DeptAncestors(_, _)
DeptAncestors(d, n) ==
    IF n = 0 \/ DeptParentOf(d) = NULL THEN {}
    ELSE {DeptParentOf(d)} \cup DeptAncestors(DeptParentOf(d), n - 1)

\* C12: starting from an acyclic department forest, after any sequence of
\* create_department, update_department and delete_department calls the
\* department parent_id graph is acyclic: no department is its own ancestor.
C12_DepartmentsAcyclic ==
    \A d \in DeptIds :
        (departments[d].exists /\ ~departments[d].is_deleted)
            => d \notin DeptAncestors(d, Cardinality(DeptIds))

\* the parent a permission row points at
PermParentOf(p) ==
    IF p \in PermIds /\ permissions[p].exists THEN permissions[p].parent_id ELSE NO_PARENT

\* the rows reached from p by following parent_id at most n times
RECURSIVE PermAncestors(_, _)
PermAncestors(p, n) ==
    IF n = 0 \/ PermParentOf(p) = NO_PARENT THEN {}
    ELSE {PermParentOf(p)} \cup PermAncestors(PermParentOf(p), n - 1)

\* C13: every change of a permission's parent_id through update_permission
\* is validated by the cycle check before it is persisted, so the permission
\* hierarchy contains no cycle after any sequence of permission creates and
\* updates.
C13_PermissionsAcyclic ==
    \A p \in PermIds :
        (permissions[p].exists /\ ~permissions[p].is_deleted)
            => p \notin PermAncestors(p, Cardinality(PermIds))

\* the ancestor chain of new_parent_id, new_parent_id included
ChainOf(new_parent_id) ==
    {new_parent_id} \cup MenuAncestors(new_parent_id, Cardinality(MenuIds))

\* the chain comes back to a node it has left
ChainRevisits(new_parent_id) ==
    \E m \in ChainOf(new_parent_id) : m \in MenuAncestors(m, Cardinality(MenuIds))

\* C14: check_circular_reference(menu_id, new_parent_id) reports safe when
\* new_parent_id is null or 0; reports a cycle when new_parent_id equals
\* menu_id, when menu_id occurs on the ancestor chain of new_parent_id, or
\* when that chain revisits a node; and reports safe otherwise.
C14_CheckCircularContract ==
    last.op = "check_circular_reference"
    => LET cycle == /\ last.parent \notin {NULL, "0"}
                    /\ \/ last.parent = last.node
                       \/ last.node \in ChainOf(last.parent)
                       \/ ChainRevisits(last.parent)
       IN  last.outcome = IF cycle THEN "cycle" ELSE "safe"

TreeOps == {"build_menu_tree", "build_permission_tree"}

\* the parent_id of input node n of the tree built last
TreeParentOf(n) ==
    IF last.op = "build_menu_tree" THEN menus[n].parent_id ELSE permissions[n].parent_id

\* how often n is placed in the forest: in the root list and in child lists
TimesPlaced(tree, n) ==
    Cardinality({i \in 1..Len(tree.roots) : tree.roots[i] = n})
    + Cardinality({pi \in (DOMAIN tree.children) \X (1..Cardinality(last.required)) :
                      /\ pi[2] <= Len(tree.children[pi[1]])
                      /\ tree.children[pi[1]][pi[2]] = n})

\* the ids a depth-first traversal from n visits
RECURSIVE Subtree(_, _, _)
Subtree(tree, n, depth) ==
    IF depth = 0 THEN {n}
    ELSE {n} \cup UNION {Subtree(tree, c, depth - 1) : c \in Range(tree.children[n])}

Flattened(tree) ==
    UNION {Subtree(tree, n, Cardinality(last.required)) : n \in Range(tree.roots)}

\* the input of the tree built last has no cycle
TreeInputAcyclic ==
    IF last.op = "build_menu_tree"
    THEN \A n \in last.required : n \notin MenuAncestors(n, Cardinality(MenuIds))
    ELSE \A n \in last.required : n \notin PermAncestors(n, Cardinality(PermIds))

\* C15: build_menu_tree and build_permission_tree place every input node
\* exactly once in the returned forest: as a child of the node named by its
\* parent_id when that node is in the input, and as a root when parent_id
\* is null/0 or names a node missing from the input; flattening the forest
\* depth-first gives back exactly the set of input ids.
C15_TreePlacesEveryNode ==
    (last.op \in TreeOps /\ TreeInputAcyclic)
    => /\ \A n \in last.required :
            /\ TimesPlaced(last.value, n) = 1
            /\ IF TreeParentOf(n) \notin last.required
               THEN n \in Range(last.value.roots)
               ELSE n \in Range(last.value.children[TreeParentOf(n)])
       /\ Flattened(last.value) = last.required

\* a cache get or set raised inside the resolver call recorded in `last`:
\* every call starts with a get, a set follows only after the store was read
CacheCallFailed ==
    \/ last.redis_fault \in {"get", "down"}
    \/ last.redis_fault = "set" /\ last.store_queries > 0

\* C16: if Redis is unreachable or any cache get or set raises,
\* get_user_permissions, get_user_roles and get_user_data_scope still return
\* the value derived from the Fact Store and raise no error caused by the
\* cache.
C16_CacheFailureNotFatal ==
    last.op \in ResolverOps
    => /\ last.outcome = "raised" => last.db_fault
       /\ (CacheCallFailed /\ ~last.db_fault)
            => /\ last.outcome = "ok"
               /\ last.op = "get_user_permissions" =>
                    last.value = db_user_permissions(last.user)
               /\ last.op = "get_user_roles" => last.value = db_user_roles(last.user)
               /\ last.op = "get_user_data_scope" =>
                    last.value = {db_user_data_scope(last.user)}

\* Redis is down while the key still holds an older, different permission
\* list: the call answers with the non-empty list of the store
C16_Witness ==
    /\ last.op = "get_user_permissions" /\ last.redis_fault = "down" /\ ~last.db_fault
    /\ last.outcome = "ok" /\ last.value # {}
    /\ cache[last.user].permissions.present
    /\ json_loads(cache[last.user].permissions.text) # last.value

\* C17: fail-closed - if a Fact Store query fails while the permissions of a
\* non-superadmin user are being resolved, the error propagates out of the
\* guard and the guarded handler is not executed; a store failure never
\* results in the request being allowed.
C17_FailClosed ==
    (last.op \in GuardOps /\ last.db_fault /\ last.store_queries > 0)
    => last.outcome = "raised"

\* the store fails under a guard for a user whose stored permissions cover
\* the required codes: the request ends in the error, not in the handler
C17_Witness ==
    /\ last.op = "require_permissions" /\ last.db_fault /\ last.store_queries > 0
    /\ last.required # {} /\ last.required \subseteq db_user_permissions(last.user)
    /\ last.outcome = "raised"

\* the permission set the guard recorded in `last` resolved for its user: a
\* resolution without a failure leaves exactly that set in the user's key
ResolvedPermissions == json_loads(cache[last.user].permissions.text)

\* C18: require_permissions(codes) lets a non-superadmin request through if
\* and only if every required code is in the user's resolved permission set,
\* and otherwise rejects it with 403; a request with no authenticated
\* principal is rejected with 401 before any permission resolution is
\* performed.
C18_RequirePermissions ==
    last.op \in {"require_permissions", "permission_checker"}
    => IF last.user = NULL
       THEN last.outcome = "401" /\ last.cache_ops = 0 /\ last.store_queries = 0
       ELSE users[last.user].user_type # SUPERADMIN
            => last.outcome = IF last.required \subseteq ResolvedPermissions
                              THEN "allow" ELSE "403"

\* positions in `tokens` of the access tokens issued by a login
LoginPositions == {i \in 1..Len(tokens) : tokens[i].by = "login"}

\* the access token of the most recent login
LatestLoginToken ==
    tokens[CHOOSE i \in LoginPositions : \A j \in LoginPositions : j <= i].access

\* access tokens of the logins that were followed by another login (two
\* logins of the same second issue one and the same token, which belongs to
\* the most recent login)
EarlierLoginTokens ==
    {tokens[i].access : i \in {k \in LoginPositions : \E j \in LoginPositions : j > k}}
        \ {LatestLoginToken}

\* C19: with single-session mode enabled, once a user logs in again, the
\* access token issued by the earlier login is rejected with 401 on every
\* later request, while the access token of the most recent login (not yet
\* expired, its session not refreshed since) is accepted.
C19_SingleSession ==
    (last.op = "request" /\ LoginPositions # {})
    => /\ last.token \in EarlierLoginTokens => last.outcome = "401"
       /\ (/\ tokens[Len(tokens)].by = "login"
           /\ last.token = LatestLoginToken
           /\ now <= last.token)
            => last.outcome = "200"

\* the ids handed out so far with the order in which their calls held the
\* lock: those already returned and those a thread is about to return
IssuedIds ==
    {[id |-> returned[i].id, ticket |-> returned[i].ticket] : i \in 1..Len(returned)}
        \cup {[id |-> threads[t].id, ticket |-> threads[t].ticket] :
                  t \in {x \in Threads : threads[x].pc = "return"}}

\* C20 as stated: all ids returned by one generator are pairwise distinct,
\* and each is strictly greater than every id returned before it, for any
\* interleaving of concurrent generate_id calls.
C20_IncreasingInReturnOrder ==
    \A i, j \in 1..Len(returned) : i < j => returned[i].id < returned[j].id

\* C20 amended: the ids are pairwise distinct, and each is strictly greater
\* than every id generated before it, i.e. by a call that held the lock
\* earlier; two overlapping calls may return in the opposite order.
C20_DistinctAndIncreasingInLockOrder ==
    \A a, b \in IssuedIds :
        /\ a # b => a.id # b.id
        /\ a.ticket < b.ticket => a.id < b.id

\* the sequence has wrapped at 4095 to the next millisecond, a second call
\* fell into that same millisecond, and the two calls returned in the
\* opposite order
C20_Witness ==
    \E i, j, k \in 1..Len(returned) :
        /\ returned[i].id % (MAX_SEQUENCE + 1) = MAX_SEQUENCE
        /\ returned[j].ticket = returned[i].ticket + 2
        /\ returned[k].ticket = returned[i].ticket + 1
        /\ returned[k].id % (MAX_SEQUENCE + 1) = 0
        /\ returned[j].id = returned[k].id + 1
        /\ j < k

\* codes of the enabled, non-deleted permissions, of any type, linked through
\* RolePermission to a role assigned to u
LinkedPermissionCodes(u) ==
    {permissions[p].code : p \in
        {q \in PermIds : /\ permissions[q].exists
                         /\ permissions[q].status = 1
                         /\ ~permissions[q].is_deleted
                         /\ \E r \in user_roles[u] : q \in role_permissions[r]}}

\* C21: get_user_permissions returns the code of every enabled, non-deleted
\* permission linked through RolePermission to a role assigned to the user,
\* including permissions created with the default type (1).
C21_DefaultTypeResolved ==
    (LastWasMiss /\ last.op = "get_user_permissions")
    => last.value = LinkedPermissionCodes(last.user)

\* C22: get_sub_departments(dept_id, include_self=False) returns exactly the
\* ids of all non-deleted departments that have dept_id as an ancestor, each
\* once, and the empty list for a leaf; with include_self=True the result
\* additionally contains dept_id itself.
C22_SubDepartments ==
    last.op = "get_sub_departments"
    => /\ last.outcome = "ok"
       /\ \A i, j \in 1..Len(last.value) : last.value[i] = last.value[j] => i = j
       /\ Range(last.value) =
            (DepartmentAndDescendants(last.node) \ {last.node})
                \cup (IF last.include_self THEN {last.node} ELSE {})

\* C23: get_sub_departments terminates for every department graph, including
\* one whose parent pointers form a cycle: no call re-enters a department
\* without end.
C23_WalkTerminates ==
    last.op = "get_sub_departments" => last.outcome # "raised"

\* C24: when two update_menu requests change parent pointers at the same
\* time (one sets A's parent to B while the other sets B's parent to A),
\* every change is validated against the latest table inside the writing
\* transaction, so once both requests have committed no menu is its own
\* ancestor.
C24_ConcurrentUpdatesAcyclic ==
    (\A x \in MenuRequests : menu_sessions[x].pc = "idle")
        => \A m \in MenuIds :
              menus[m].exists => m \notin MenuAncestors(m, Cardinality(MenuIds))

\* C25: after a successful logout the access token used for it is
\* blacklisted, and until its expiry get_current_user accepts it on no
\* later request.
C25_LogoutRevokesToken ==
    /\ (last.op = "logout" /\ last.outcome = "200" /\ now < last.token)
          => is_token_blacklisted(last.token)
    /\ (last.op = "request" /\ is_token_blacklisted(last.token))
          => last.outcome = "401"

\* C26: once force_logout_user has succeeded for the account, a request
\* that bears an access token issued before it is rejected, as long as the
\* user has not logged in again.
C26_ForceLogoutRevokesTokens ==
    [][(last.op = "force_logout_user" /\ last'.op = "request")
          => last'.outcome = "401"]_vars

\* C27: when a resolution for user u overlaps a committed mutation that is
\* followed by clear_user_permission_cache(u), the resolution that finishes
\* after the invalidation leaves the permissions key of u absent or equal
\* to what the store holds now: it installs no value read before the
\* mutation.
C27_NoStaleReinstall ==
    [][\A u \in OrdinaryUsers :
          (/\ last.op = "clear_user_permission_cache" /\ last.user = u
           /\ resolving[u].pc = "queried" /\ resolving'[u].pc = "idle")
              => \/ ~cache'[u].permissions.present
                 \/ json_loads(cache'[u].permissions.text) = db_user_permissions(u)']_vars

\* C28: once update_department or delete_department has committed and
\* returned, a later get_departments call returns the post-update rows,
\* however readers that repopulate the department cache were interleaved
\* with the write: a call answered from the cache while no write is in
\* flight returns the rows of the table.
C28_DepartmentsReadAfterWrite ==
    (last.op = "get_departments" /\ last.outcome = "hit" /\ dept_sessions.pc = "idle")
        => last.value = db_departments

\* what a resolution of every kind returns for u in the current state is
\* what the store yields
ResolutionsReturnStoreValues(u) ==
    /\ get_user_permissions(u).result = db_user_permissions(u)
    /\ get_user_roles(u).result = db_user_roles(u)
    /\ get_user_data_scope(u).result = db_user_data_scope(u)

\* C29: every cache entry is written with the 15-minute expiry, so staleness
\* is bounded: once no further mutation occurs, from some point on every
\* resolution returns the store-derived value, and keeps returning it.
C29_StalenessBounded == <>[]ResolutionsReturnStoreValues("u1")

\* a key of u1 is stale after a mutation while a resolution that missed the
\* cache has just returned the store-derived permissions
C29_Witness ==
    /\ mutations > 0
    /\ last.op = "get_user_permissions" /\ last.user = "u1" /\ LastWasMiss
    /\ last.value = db_user_permissions("u1")
    /\ cache["u1"].permissions = KeyHolding(json_dumps(db_user_permissions("u1")))
    /\ cache["u1"].roles.present
    /\ json_loads(cache["u1"].roles.text) # db_user_roles("u1")

\* C30: apply_data_scope_filter depends on the user and the store only: a
\* call makes no cache operation and leaves every cache key as it is, and
\* two calls for the same user and entity between which the store has not
\* changed, whatever the cache held at each of them, build the same filter.
C30_FilterIndependentOfCache ==
    [][last'.op = "apply_data_scope_filter"
          => /\ last'.cache_ops = 0
             /\ last' # last => cache' = cache
             /\ (/\ last.op = "apply_data_scope_filter"
                 /\ last.user = last'.user
                 /\ last.has_dept_id = last'.has_dept_id)
                    => last'.filter = last.filter]_vars

\* the filter has been built for u1 after a role update, while the cached
\* data scope of u1 differs from what the store yields
C30_Witness ==
    /\ last.op = "apply_data_scope_filter" /\ last.user = "u1"
    /\ mutations > 0
    /\ cache["u1"].data_scope.present
    /\ int(cache["u1"].data_scope.text) # db_user_data_scope("u1")

====
